---- MODULE Spec2Model ----
(***************************************************************************)
(* Model of nozcat/adam: the label-lock protocol of linear.js (lockIssue / *)
(* unlockIssue over the tracker's label store) and the per-issue workflow  *)
(* of adam.js (runAdam / performActions / processIssue) run by several     *)
(* agent processes against one tracker and one hosting platform.           *)
(*                                                                         *)
(* The specifications share the variables:                                 *)
(*   SpecLock   agents calling lockIssue and unlockIssue in any order      *)
(*   Spec       agents running the poll loop; the tracker's users and the  *)
(*              hosting platform change issues and pull requests meanwhile *)
(*   SpecPoll   pollLinear applied to a tracker content                    *)
(*   SpecLoop   the runAdam loop of one agent with its clock               *)
(*   SpecCommit ensureChangesCommitted                                     *)
(*   SpecPush   pushBranchAndMergeIfNecessary                              *)
(***************************************************************************)
EXTENDS Naturals, Integers, Sequences, FiniteSets, TLC

\* ------------------------------------------------------------------ bounds
NumAgents == 2
NumIssues == 2
MaxTrackerEdits == 1
MaxPRs == 2

Agents == 1..NumAgents
Issues == 1..NumIssues

\* lockIssue and unlockIssue read and write the labels of their own issue
\* only, so SpecLock lets the agents contend for one issue.
LockIssues == {1}

VARIABLES
  \* tracker (Linear)
  labels,        \* [Issues -> set of label names] labels attached to each issue
  orgLabels,     \* label names that exist in the organization
  issueState,    \* [Issues -> state name] lifecycle state of each issue
  blocks,        \* set of <<j, i>>: issue j has a "blocks" relation to issue i
  edits,         \* number of state changes made by the tracker's users
  \* hosting platform (GitHub)
  prs,           \* [Issues -> Seq(status)] pull requests of the issue's branch
  \* an agent inside lockIssue / unlockIssue
  lpc,           \* [Agents -> position]
  ltarget,       \* [Agents -> issue] the issue argument of the running call
  held,          \* [Agents -> set of issues] lockIssue returned true, not unlocked
  lockRet,       \* [Agents -> last return of lockIssue or unlockIssue]
  \* an agent inside runAdam
  pc,            \* [Agents -> position]
  todo,          \* [Agents -> Seq(issue object)] rest of the for..of list
  cur,           \* [Agents -> issue object being processed]
  cloned,        \* [Agents -> "absent" or "configured"] the local clone
  updateSuccess, \* [Agents -> BOOLEAN] local of processIssue
  currentState,  \* [Agents -> state name or "none"] local of processIssue
  finalState,    \* [Agents -> state name, "null" or "none"] local of processIssue
  foundWork,     \* [Agents -> BOOLEAN] local of performActions
  \* one pollLinear call
  pollArgs,      \* {}, or {the caller and which tracker reads failed}
  pollResult,    \* Seq(issue id): the issues the call returned
  \* one agent's runAdam loop with its clock
  rpc,           \* position in the loop
  pollIntervalSeconds, \* local of runAdam
  elapsed,       \* seconds the cycle's performActions took
  outcome,       \* how the cycle's performActions ended
  \* one ensureChangesCommitted call
  epc,           \* position in the call
  retry,         \* local of ensureChangesCommitted
  invocations,   \* callClaude calls made so far
  statusErrors,  \* attempts whose first git.status() threw
  files,         \* number of uncommitted files in the working tree
  stayedDirty,   \* the working tree was never clean since the call began
  commitRet,     \* "none", "true" or "false": the call's return
  \* one pushBranchAndMergeIfNecessary call
  ppc,           \* position in the call
  pushes,        \* git.push calls made so far
  fetched,       \* git.fetch() was called
  mergeStep,     \* "none", "uptodate", "merged", "failed" or "threw"
  pushedOk,      \* a git.push call succeeded
  pushRet,       \* "none", "true" or "false": the call's return
  behind,        \* commits of origin/<base> the branch lacks
  unpushed,      \* local commits the remote branch lacks
  \* single calls, each a record of the call's position, locals and the part
  \* of the world it reads and writes
  upd,           \* one updateExistingPR call
  repo,          \* one clone, with the checkoutBranch calls made on it
  thr,           \* a comment list, with the thread functions applied to it
  conv,          \* one processConversationThreads call
  look,          \* the pull request lookup of one processIssue call
  clone,         \* one clone directory, with the ensureRepositoryExists calls on it
  resolve,       \* one getRepositoryFromIssue call
  relock,        \* the agents inside the label-rewriting lockIssue
  review,        \* one leaf comment and the agents that poll its pull request
  stale,         \* an issue that carries the label of a stopped agent
  cycle,         \* the poll cycles of one agent over its candidate list
  lost,          \* one review thread, its commits and the next checkout
  trace,         \* one buildConversationThread call, loop iteration by iteration
  branches       \* the branch names of a clone and one checkoutBranch call

trackerVars == <<labels, orgLabels, issueState, blocks, edits>>
hostVars == <<prs>>
lockVars == <<lpc, ltarget, held, lockRet>>
agentVars == <<pc, todo, cur, cloned, updateSuccess, currentState, finalState, foundWork>>
coreVars == <<trackerVars, hostVars, lockVars, agentVars>>
pollVars == <<pollArgs, pollResult>>
loopVars == <<rpc, pollIntervalSeconds, elapsed, outcome>>
commitVars == <<epc, retry, invocations, statusErrors, files, stayedDirty, commitRet>>
pushVars == <<ppc, pushes, fetched, mergeStep, pushedOk, pushRet, behind, unpushed>>
funVars == <<pollVars, loopVars, commitVars, pushVars>>
studyVars == <<clone, resolve, relock, review, stale, cycle, lost, trace, branches>>
callVars == <<upd, repo, thr, conv, look, studyVars>>
\* the variables of the specifications of single functions
auxVars == <<funVars, callVars>>
vars == <<labels, orgLabels, issueState, blocks, edits, prs, lpc, ltarget, held, lockRet,
          pc, todo, cur, cloned, updateSuccess, currentState, finalState, foundWork,
          pollArgs, pollResult, rpc, pollIntervalSeconds, elapsed, outcome,
          epc, retry, invocations, statusErrors, files, stayedDirty, commitRet,
          ppc, pushes, fetched, mergeStep, pushedOk, pushRet, behind, unpushed,
          upd, repo, thr, conv, look,
          clone, resolve, relock, review, stale, cycle, lost, trace, branches>>

\* ------------------------------------------------------------ label names
\* A label name is a pair <<prefix, rest>>: "agent:<id>" is <<"agent", id>>,
\* "repo:<owner>/<name>" is <<"repo", "acme/widgets">>.
RepoLabel == <<"repo", "acme/widgets">>

getAgentLabelName(agentId) == <<"agent", agentId>>

startsWithAgent(name) == name[1] = "agent"

\* linear.js checkForExistingAgentLabels: the agent labels among the labels read
checkForExistingAgentLabels(nodes) == {n \in nodes : startsWithAgent(n)}

\* mutant of issueRemoveLabel: every label is taken off the issue
issueRemoveLabel_Everything(nodes, labelName) == {}

\* mutant of issueRemoveLabel: every agent label is taken off the issue
issueRemoveLabel_AllAgents(nodes, labelName) == {n \in nodes : ~startsWithAgent(n)}

\* linearClient.issueRemoveLabel(issue.id, labelId), as lockIssue and
\* unlockIssue call it: the one label is taken off the issue
issueRemoveLabel(nodes, labelName) == nodes \ {labelName}

\* mutant of otherAgentLabels: the re-read result is not examined
otherAgentLabels_NoRecheck(names, labelName) == {}

\* mutant of otherAgentLabels: the prefix test is negated
otherAgentLabels_NotAgent(names, labelName) ==
  {n \in names : ~startsWithAgent(n) /\ n # labelName}

\* linear.js lockIssue: agent labels other than the caller's among the re-read names
otherAgentLabels(names, labelName) ==
  {n \in names : startsWithAgent(n) /\ n # labelName}

NoIssue == [id |-> 0, state |-> "none", repository |-> FALSE]

\* ------------------------------------------------------------------- Init
LockIdle ==
  /\ lpc = [a \in Agents |-> "idle"]
  /\ ltarget = [a \in Agents |-> 1]
  /\ held = [a \in Agents |-> {}]
  /\ lockRet = [a \in Agents |-> "none"]

AgentIdle ==
  /\ pc = [a \in Agents |-> "sleep"]
  /\ todo = [a \in Agents |-> <<>>]
  /\ cur = [a \in Agents |-> NoIssue]
  /\ cloned = [a \in Agents |-> "absent"]
  /\ updateSuccess = [a \in Agents |-> FALSE]
  /\ currentState = [a \in Agents |-> "none"]
  /\ finalState = [a \in Agents |-> "none"]
  /\ foundWork = [a \in Agents |-> FALSE]

\* the record of a call that has not been made
NoCall == [pc |-> "idle"]

UpdIdle == upd = NoCall
RepoIdle == repo = NoCall
ThrIdle == thr = NoCall
ConvIdle == conv = NoCall
LookIdle == look = NoCall
CloneIdle == clone = NoCall
ResolveIdle == resolve = NoCall
RelockIdle == relock = NoCall
ReviewIdle == review = NoCall
StaleIdle == stale = NoCall
CycleIdle == cycle = NoCall
LostIdle == lost = NoCall
TraceIdle == trace = NoCall
BranchesIdle == branches = NoCall

\* none of the calls below has been made
StudyIdle ==
  /\ CloneIdle
  /\ ResolveIdle
  /\ RelockIdle
  /\ ReviewIdle
  /\ StaleIdle
  /\ CycleIdle
  /\ LostIdle
  /\ TraceIdle
  /\ BranchesIdle

\* all single calls but one are idle, and what that one leaves unchanged
OnlyClone ==
  /\ UpdIdle /\ RepoIdle /\ ThrIdle /\ ConvIdle /\ LookIdle
  /\ ResolveIdle
  /\ RelockIdle
  /\ ReviewIdle
  /\ StaleIdle
  /\ CycleIdle
  /\ LostIdle
  /\ TraceIdle
  /\ BranchesIdle

cloneFrame ==
  <<coreVars, funVars, upd, repo, thr, conv, look,
    resolve, relock, review, stale, cycle, lost, trace, branches>>

OnlyResolve ==
  /\ UpdIdle /\ RepoIdle /\ ThrIdle /\ ConvIdle /\ LookIdle
  /\ CloneIdle
  /\ RelockIdle
  /\ ReviewIdle
  /\ StaleIdle
  /\ CycleIdle
  /\ LostIdle
  /\ TraceIdle
  /\ BranchesIdle

resolveFrame ==
  <<coreVars, funVars, upd, repo, thr, conv, look,
    clone, relock, review, stale, cycle, lost, trace, branches>>

OnlyRelock ==
  /\ UpdIdle /\ RepoIdle /\ ThrIdle /\ ConvIdle /\ LookIdle
  /\ CloneIdle
  /\ ResolveIdle
  /\ ReviewIdle
  /\ StaleIdle
  /\ CycleIdle
  /\ LostIdle
  /\ TraceIdle
  /\ BranchesIdle

relockFrame ==
  <<coreVars, funVars, upd, repo, thr, conv, look,
    clone, resolve, review, stale, cycle, lost, trace, branches>>

OnlyReview ==
  /\ UpdIdle /\ RepoIdle /\ ThrIdle /\ ConvIdle /\ LookIdle
  /\ CloneIdle
  /\ ResolveIdle
  /\ RelockIdle
  /\ StaleIdle
  /\ CycleIdle
  /\ LostIdle
  /\ TraceIdle
  /\ BranchesIdle

reviewFrame ==
  <<coreVars, funVars, upd, repo, thr, conv, look,
    clone, resolve, relock, stale, cycle, lost, trace, branches>>

OnlyStale ==
  /\ UpdIdle /\ RepoIdle /\ ThrIdle /\ ConvIdle /\ LookIdle
  /\ CloneIdle
  /\ ResolveIdle
  /\ RelockIdle
  /\ ReviewIdle
  /\ CycleIdle
  /\ LostIdle
  /\ TraceIdle
  /\ BranchesIdle

staleFrame ==
  <<coreVars, funVars, upd, repo, thr, conv, look,
    clone, resolve, relock, review, cycle, lost, trace, branches>>

OnlyCycle ==
  /\ UpdIdle /\ RepoIdle /\ ThrIdle /\ ConvIdle /\ LookIdle
  /\ CloneIdle
  /\ ResolveIdle
  /\ RelockIdle
  /\ ReviewIdle
  /\ StaleIdle
  /\ LostIdle
  /\ TraceIdle
  /\ BranchesIdle

cycleFrame ==
  <<coreVars, funVars, upd, repo, thr, conv, look,
    clone, resolve, relock, review, stale, lost, trace, branches>>

OnlyLost ==
  /\ UpdIdle /\ RepoIdle /\ ThrIdle /\ ConvIdle /\ LookIdle
  /\ CloneIdle
  /\ ResolveIdle
  /\ RelockIdle
  /\ ReviewIdle
  /\ StaleIdle
  /\ CycleIdle
  /\ TraceIdle
  /\ BranchesIdle

lostFrame ==
  <<coreVars, funVars, upd, repo, thr, conv, look,
    clone, resolve, relock, review, stale, cycle, trace, branches>>

OnlyTrace ==
  /\ UpdIdle /\ RepoIdle /\ ThrIdle /\ ConvIdle /\ LookIdle
  /\ CloneIdle
  /\ ResolveIdle
  /\ RelockIdle
  /\ ReviewIdle
  /\ StaleIdle
  /\ CycleIdle
  /\ LostIdle
  /\ BranchesIdle

traceFrame ==
  <<coreVars, funVars, upd, repo, thr, conv, look,
    clone, resolve, relock, review, stale, cycle, lost, branches>>

OnlyBranches ==
  /\ UpdIdle /\ RepoIdle /\ ThrIdle /\ ConvIdle /\ LookIdle
  /\ CloneIdle
  /\ ResolveIdle
  /\ RelockIdle
  /\ ReviewIdle
  /\ StaleIdle
  /\ CycleIdle
  /\ LostIdle
  /\ TraceIdle

branchesFrame ==
  <<coreVars, funVars, upd, repo, thr, conv, look,
    clone, resolve, relock, review, stale, cycle, lost, trace>>

\* no pollLinear call has been made
PollIdle ==
  /\ pollArgs = {}
  /\ pollResult = <<>>

\* runAdam is about to enter its loop
LoopIdle ==
  /\ rpc = "top"
  /\ pollIntervalSeconds = 0
  /\ elapsed = 0
  /\ outcome = "none"

\* ensureChangesCommitted has not been called
CommitIdle ==
  /\ epc = "idle"
  /\ retry = 0
  /\ invocations = 0
  /\ statusErrors = 0
  /\ files = 0
  /\ stayedDirty = FALSE
  /\ commitRet = "none"

\* pushBranchAndMergeIfNecessary has not been called
PushIdle ==
  /\ ppc = "idle"
  /\ pushes = 0
  /\ fetched = FALSE
  /\ mergeStep = "none"
  /\ pushedOk = FALSE
  /\ pushRet = "none"
  /\ behind = 0
  /\ unpushed = 0

InitLock ==
  /\ labels \in {f \in [Issues -> {{}, {RepoLabel}}] :
                    \A i \in Issues \ LockIssues : f[i] = {RepoLabel}}
  /\ orgLabels = {RepoLabel}
  /\ issueState = [i \in Issues |-> "Todo"]
  /\ blocks = {}
  /\ edits = 0
  /\ prs = [i \in Issues |-> <<>>]
  /\ LockIdle
  /\ AgentIdle
  /\ PollIdle /\ LoopIdle /\ CommitIdle /\ PushIdle
  /\ UpdIdle /\ RepoIdle /\ ThrIdle /\ ConvIdle /\ LookIdle /\ StudyIdle

\* ------------------------------------------------- lockIssue / unlockIssue
lockReturn(a, r) ==
  /\ lpc' = [lpc EXCEPT ![a] = "idle"]
  /\ lockRet' = [lockRet EXCEPT ![a] = r]

\* a caller invokes lockIssue(issue); an agent that was told it holds the
\* lock of the issue unlocks before it asks for the lock again
lockIssue(a, i) ==
  /\ lpc[a] = "idle"
  /\ i \notin held[a]
  /\ lpc' = [lpc EXCEPT ![a] = "lk_find"]
  /\ ltarget' = [ltarget EXCEPT ![a] = i]
  /\ lockRet' = [lockRet EXCEPT ![a] = "none"]
  /\ UNCHANGED <<auxVars, trackerVars, hostVars, held, agentVars>>

\* findOrCreateLabel(labelName): the label id, or null on an API error
findOrCreateLabel(a) ==
  /\ lpc[a] = "lk_find"
  /\ \/ /\ orgLabels' = orgLabels \cup {getAgentLabelName(a)}
        /\ lpc' = [lpc EXCEPT ![a] = "lk_check"]
        /\ UNCHANGED lockRet
     \/ /\ lockReturn(a, "false")
        /\ UNCHANGED orgLabels
  /\ UNCHANGED <<auxVars, labels, issueState, blocks, edits, hostVars, ltarget, held, agentVars>>

\* the first read of the issue's labels; a failed read counts as no labels
lockIssue_check(a) ==
  /\ lpc[a] = "lk_check"
  /\ \E existingAgentLabels \in {checkForExistingAgentLabels(labels[ltarget[a]]), {}} :
       IF existingAgentLabels # {}
         THEN lockReturn(a, "false")
         ELSE /\ lpc' = [lpc EXCEPT ![a] = "lk_add"]
              /\ UNCHANGED lockRet
  /\ UNCHANGED <<auxVars, trackerVars, hostVars, ltarget, held, agentVars>>

\* issueAddLabel followed by the 2 s settle delay; an API error is caught
lockIssue_add(a) ==
  /\ lpc[a] = "lk_add"
  /\ \/ /\ labels' = [labels EXCEPT ![ltarget[a]] = @ \cup {getAgentLabelName(a)}]
        /\ lpc' = [lpc EXCEPT ![a] = "lk_reread"]
        /\ UNCHANGED lockRet
     \/ /\ lockReturn(a, "error")
        /\ UNCHANGED labels
  /\ UNCHANGED <<auxVars, orgLabels, issueState, blocks, edits, hostVars, ltarget, held, agentVars>>

\* the re-read after the delay: another agent's label means the lock failed
lockIssue_reread(a) ==
  /\ lpc[a] = "lk_reread"
  /\ \/ IF otherAgentLabels(labels[ltarget[a]], getAgentLabelName(a)) # {}
          THEN /\ lpc' = [lpc EXCEPT ![a] = "lk_remove"]
               /\ UNCHANGED <<lockRet, held>>
          ELSE /\ lockReturn(a, "true")
               /\ held' = [held EXCEPT ![a] = @ \cup {ltarget[a]}]
     \/ /\ lockReturn(a, "error")
        /\ UNCHANGED held
  /\ UNCHANGED <<auxVars, trackerVars, hostVars, ltarget, agentVars>>

\* issueRemoveLabel of the caller's label in the race path
lockIssue_remove(a) ==
  /\ lpc[a] = "lk_remove"
  /\ \/ /\ labels' = [labels EXCEPT ![ltarget[a]] =
                                 issueRemoveLabel(@, getAgentLabelName(a))]
        /\ lockReturn(a, "false")
     \/ /\ lockReturn(a, "error")
        /\ UNCHANGED labels
  /\ UNCHANGED <<auxVars, orgLabels, issueState, blocks, edits, hostVars, ltarget, held, agentVars>>

\* unlockIssue returns: "removed" (line 454) and "absent" (lines 441, 447)
\* are its `return true`, "failed" is the `return false` of its catch block
unlockReturn(a, r) ==
  /\ lpc' = [lpc EXCEPT ![a] = "idle"]
  /\ lockRet' = [lockRet EXCEPT ![a] = r]

\* a caller invokes unlockIssue(issue)
unlockIssue(a, i) ==
  /\ lpc[a] = "idle"
  /\ lpc' = [lpc EXCEPT ![a] = "ul_read"]
  /\ ltarget' = [ltarget EXCEPT ![a] = i]
  /\ UNCHANGED <<auxVars, trackerVars, hostVars, held, lockRet, agentVars>>

\* mutant of findAgentLabel: any agent label is taken for the caller's
findAgentLabel_AnyAgent(nodes, labelName) == \E n \in nodes : startsWithAgent(n)

\* unlockIssue: labels.nodes.find(label => label.name === labelName)
findAgentLabel(nodes, labelName) == labelName \in nodes

\* issue.labels() and the search for the caller's label
unlockIssue_read(a) ==
  /\ lpc[a] = "ul_read"
  /\ \/ /\ lpc' = [lpc EXCEPT ![a] =
                     IF findAgentLabel(labels[ltarget[a]], getAgentLabelName(a))
                       THEN "ul_remove" ELSE "ul_absent"]
        /\ UNCHANGED lockRet
     \/ unlockReturn(a, "failed")
  /\ UNCHANGED <<auxVars, trackerVars, hostVars, ltarget, held, agentVars>>

\* `return true` with the caller's label not among the labels read
unlockIssue_absent(a) ==
  /\ lpc[a] = "ul_absent"
  /\ unlockReturn(a, "absent")
  /\ held' = [held EXCEPT ![a] = @ \ {ltarget[a]}]
  /\ UNCHANGED <<auxVars, trackerVars, hostVars, ltarget, agentVars>>

\* issueRemoveLabel(issue.id, agentLabel.id)
unlockIssue_remove(a) ==
  /\ lpc[a] = "ul_remove"
  /\ \/ /\ labels' = [labels EXCEPT ![ltarget[a]] =
                                 issueRemoveLabel(@, getAgentLabelName(a))]
        /\ held' = [held EXCEPT ![a] = @ \ {ltarget[a]}]
        /\ unlockReturn(a, "removed")
     \/ /\ unlockReturn(a, "failed")
        /\ UNCHANGED <<labels, held>>
  /\ UNCHANGED <<auxVars, orgLabels, issueState, blocks, edits, hostVars, ltarget, agentVars>>

NextLock ==
  \/ \E a \in Agents, i \in LockIssues : lockIssue(a, i)
  \/ \E a \in Agents : findOrCreateLabel(a)
  \/ \E a \in Agents : lockIssue_check(a)
  \/ \E a \in Agents : lockIssue_add(a)
  \/ \E a \in Agents : lockIssue_reread(a)
  \/ \E a \in Agents : lockIssue_remove(a)
  \/ \E a \in Agents, i \in LockIssues : unlockIssue(a, i)
  \/ \E a \in Agents : unlockIssue_read(a)
  \/ \E a \in Agents : unlockIssue_absent(a)
  \/ \E a \in Agents : unlockIssue_remove(a)

SpecLock == InitLock /\ [][NextLock]_vars


\* ---------------------------------------------------- claims on SpecLock
AgentLabelsOn(i) == checkForExistingAgentLabels(labels[i])

\* C2: lock mutual exclusion. Once lockIssue has returned true for an agent
\* and that agent has not unlocked, no lockIssue call of another agent on the
\* same issue returns true: two agents never hold the lock of one issue.
LockMutualExclusion ==
  \A i \in Issues : \A a, b \in Agents :
    a # b => ~(i \in held[a] /\ i \in held[b])

\* C2 witness: one agent holds the lock and the other's lockIssue call on the
\* same issue, which got as far as reading the issue, has returned false.
LockRefusedWhileHeld ==
  \E i \in Issues : \E a, b \in Agents :
    /\ a # b
    /\ i \in held[a]
    /\ lpc[b] = "idle" /\ ltarget[b] = i /\ lockRet[b] = "false"
    /\ getAgentLabelName(b) \in orgLabels
    /\ getAgentLabelName(b) \notin labels[i]

RaceStep(a) ==
  LET i == ltarget[a]
      own == getAgentLabelName(a)
      othersAttached == \E b \in Agents : b # a /\ getAgentLabelName(b) \in labels[i]
  IN  /\ (lpc[a] = "lk_reread" /\ lpc'[a] # "lk_reread" /\ othersAttached)
           => /\ lpc'[a] = "lk_remove" \/ lockRet'[a] = "error"
              /\ lockRet'[a] # "true"
              /\ held'[a] = held[a]
      /\ (lpc[a] = "lk_remove" /\ lpc'[a] # "lk_remove")
           => /\ lpc'[a] = "idle"
              /\ lockRet'[a] \in {"false", "error"}
              /\ lockRet'[a] = "false" => own \notin labels'[i]
              /\ held'[a] = held[a]

AtMostOneLockLabel ==
  \A i \in Issues : Cardinality(AgentLabelsOn(i)) <= 1

\* C4 amended: every issue has at most one attached agent label whose owner
\* holds the lock (lockIssue returned true, not unlocked since), and a
\* holder's label stays attached; labels of calls that have not returned yet
\* or that ended in an error can be attached besides it.
AtMostOneHeldLockLabel ==
  \A i \in Issues :
    LET holders == {a \in Agents : i \in held[a]}
    IN  /\ Cardinality(holders) <= 1
        /\ \A a \in holders : getAgentLabelName(a) \in labels[i]

\* C4 witness: two agent labels are attached to an issue whose lock is held.
TwoLabelsOneHolder ==
  \E i \in Issues : \E a, b \in Agents :
    /\ a # b
    /\ i \in held[a]
    /\ lpc[b] = "lk_reread" /\ ltarget[b] = i
    /\ {getAgentLabelName(a), getAgentLabelName(b)} \subseteq labels[i]

\* C11: no step of lockIssue or unlockIssue takes off a label that is not the
\* acting agent's own: every label that leaves an issue in a step is the agent
\* label of the agent whose removal step it is, and an unlockIssue step adds
\* no label.
OnlyOwnLabelRemoved ==
  [][\A i \in Issues :
       /\ \A n \in labels[i] \ labels'[i] :
            \E a \in Agents :
              /\ lpc[a] \in {"lk_remove", "ul_remove"} /\ lpc'[a] # lpc[a]
              /\ ltarget[a] = i
              /\ n = getAgentLabelName(a)
       /\ (\E a \in Agents :
             lpc[a] \in {"ul_read", "ul_absent", "ul_remove"} /\ lpc'[a] # lpc[a])
            => labels'[i] \subseteq labels[i]]_vars

\* C11 witness: an agent's unlockIssue has removed its label and returned,
\* and the label of another agent and the repository label are still attached.
UnlockedBesideOtherLabel ==
  \E i \in Issues : \E a, b \in Agents :
    /\ a # b
    /\ lpc[a] = "idle" /\ ltarget[a] = i /\ lockRet[a] = "removed"
    /\ getAgentLabelName(a) \notin labels[i]
    /\ {getAgentLabelName(b), RepoLabel} \subseteq labels[i]

\* the agent's running unlockIssue call follows an unlockIssue call (of the
\* same issue: SpecLock has one) that returned true
SecondUnlock(a) ==
  /\ lpc[a] \in {"ul_read", "ul_absent", "ul_remove"}
  /\ lockRet[a] \in {"removed", "absent"}

\* C12 as stated: the second of two unlockIssue calls in a row finds the
\* caller's label absent, changes nothing, returns true, and the issue then
\* carries no agent label.
UnlockIdempotence ==
  [][\A a \in Agents :
       (SecondUnlock(a) /\ lpc'[a] # lpc[a])
         => /\ lpc'[a] \in {"ul_absent", "idle"}
            /\ lpc'[a] = "idle" => lockRet'[a] = "absent"
            /\ labels' = labels
            /\ checkForExistingAgentLabels(labels'[ltarget[a]]) = {}]_vars

\* C12 amended: the second of two unlockIssue calls in a row never reaches the
\* removal and changes no label; the caller's own label is absent during and
\* after it; it returns true unless its label read throws, which it reports
\* by returning false. Agent labels of other agents stay attached.
UnlockIdempotenceOwnLabel ==
  /\ [](\A a \in Agents :
          SecondUnlock(a) => /\ lpc[a] # "ul_remove"
                             /\ getAgentLabelName(a) \notin labels[ltarget[a]])
  /\ [][\A a \in Agents :
          (SecondUnlock(a) /\ lpc'[a] # lpc[a])
            => /\ labels' = labels
               /\ lpc'[a] = "idle" => lockRet'[a] \in {"absent", "failed"}
               /\ lpc[a] = "ul_absent" => lockRet'[a] = "absent"]_vars

\* C12 witness: the agent's first unlockIssue removed its label; its second
\* call has read the labels, found its own absent, and is about to return
\* true while another agent's label is attached.
SecondUnlockNoOp ==
  \E i \in Issues : \E a, b \in Agents :
    /\ a # b
    /\ lpc[a] = "ul_absent" /\ ltarget[a] = i /\ lockRet[a] = "removed"
    /\ getAgentLabelName(a) \notin labels[i]
    /\ getAgentLabelName(b) \in labels[i]

\* ------------------------------------------------------------ the tracker
States == {"Todo", "In Progress", "In Review", "Done", "Canceled"}

\* the state filter of getAssignedIssues and of processIssue's first recheck
Workable == {"Todo", "In Progress", "In Review"}

\* the label a stopped agent process left behind
StaleLabel == getAgentLabelName(0)

\* linear.js isIssueBlocked: the inverse "blocks" relations of issue i are
\* walked in the order they were fetched (here: by blocking issue); the walk
\* ends with true at the first blocking issue that is not Done, and with false
\* (the catch block) at the first relation in unresolvable, whose blocking
\* issue or state cannot be read
isIssueBlocked(i, unresolvable) ==
  LET stops == {j \in Issues : /\ <<j, i>> \in blocks
                               /\ \/ <<j, i>> \in unresolvable
                                  \/ issueState[j] # "Done"}
  IN  /\ stops # {}
      /\ <<CHOOSE j \in stops : \A k \in stops : j <= k, i>> \notin unresolvable

\* linear.js isIssueLockedByAnotherAgent: an agent label that is not the
\* caller's; readable is FALSE when issue.labels() threw, and the catch block
\* answers false
isIssueLockedByAnotherAgent(nodes, a, readable) ==
  readable /\ \E n \in nodes : startsWithAgent(n) /\ n # getAgentLabelName(a)

\* linear.js getRepositoryFromIssue, reduced to "a repo:<owner>/<name> label
\* was found" (the project of an issue carries no labels in this model)
getRepositoryFromIssue(nodes) == \E n \in nodes : n[1] = "repo"

\* the issue object pollLinear hands to processIssue: the state is the one
\* the issue had when it was fetched
IssueObject(i) ==
  [id |-> i, state |-> issueState[i], repository |-> getRepositoryFromIssue(labels[i])]

\* linear.js getAssignedIssues + pollLinear: which issues survive the filters;
\* unreadable are the issues whose label read throws in the lock filter
Available(i, a, unresolvable, unreadable) ==
  /\ issueState[i] \in Workable
  /\ ~isIssueBlocked(i, unresolvable)
  /\ ~isIssueLockedByAnotherAgent(labels[i], a, i \notin unreadable)

\* the assigned issues in the order linearClient.issues returns them
AllIssues == [k \in 1..NumIssues |-> k]

\* fetchedOk is FALSE when linearClient.viewer or linearClient.issues threw:
\* getAssignedIssues then returns []
pollLinear(a, fetchedOk, unresolvable, unreadable) ==
  LET ids == IF fetchedOk
               THEN SelectSeq(AllIssues,
                              LAMBDA i : Available(i, a, unresolvable, unreadable))
               ELSE <<>>
  IN  [k \in 1..Len(ids) |-> IssueObject(ids[k])]

\* --------------------------------------------------- the hosting platform
HasOpen(list) == \E k \in 1..Len(list) : list[k] = "open"

HasMerged(list) == \E k \in 1..Len(list) : list[k] = "merged"

\* github.js findExistingPR: an open PR, else the merged signal, else null;
\* ok is FALSE when a pulls.list call threw, which the function turns into null
findExistingPR(list, ok) ==
  IF ~ok THEN "null"
  ELSE IF HasOpen(list) THEN "open"
  ELSE IF HasMerged(list) THEN "merged"
  ELSE "null"

\* ------------------------------------------------------------------- Init
\* Issue 1 is a Todo issue with its repository label. The last issue is, in
\* turn: not workable; workable and carrying a stopped agent's label;
\* workable without a repository label, and blocking issue 1.
Init ==
  /\ \E sc \in {"plain", "stale", "norepo"} :
       /\ labels = [i \in Issues |->
                     IF i = NumIssues /\ i # 1 /\ sc = "norepo" THEN {}
                     ELSE IF i = NumIssues /\ i # 1 /\ sc = "stale"
                       THEN {RepoLabel, StaleLabel}
                     ELSE {RepoLabel}]
       /\ issueState = [i \in Issues |->
                         IF i = 1 \/ (i = NumIssues /\ sc # "plain")
                           THEN "Todo" ELSE "Canceled"]
       /\ blocks = IF sc = "norepo" /\ NumIssues # 1 THEN {<<NumIssues, 1>>} ELSE {}
  /\ orgLabels = {RepoLabel, StaleLabel}
  /\ edits = 0
  /\ prs = [i \in Issues |-> <<>>]
  /\ LockIdle
  /\ AgentIdle
  /\ PollIdle /\ LoopIdle /\ CommitIdle /\ PushIdle
  /\ UpdIdle /\ RepoIdle /\ ThrIdle /\ ConvIdle /\ LookIdle /\ StudyIdle

\* ------------------------------------------------------- the environment
\* a user of the tracker moves an issue to another state
TrackerSetState(i, s) ==
  /\ edits < MaxTrackerEdits
  /\ s # issueState[i]
  /\ issueState' = [issueState EXCEPT ![i] = s]
  /\ edits' = edits + 1
  /\ UNCHANGED <<auxVars, labels, orgLabels, blocks, hostVars, lockVars, agentVars>>

\* a reviewer merges an open pull request
PlatformMergePR(i, k) ==
  /\ k \in 1..Len(prs[i])
  /\ prs[i][k] = "open"
  /\ prs' = [prs EXCEPT ![i][k] = "merged"]
  /\ UNCHANGED <<auxVars, trackerVars, lockVars, agentVars>>

\* a reviewer closes an open pull request without merging it
PlatformClosePR(i, k) ==
  /\ k \in 1..Len(prs[i])
  /\ prs[i][k] = "open"
  /\ prs' = [prs EXCEPT ![i][k] = "closed"]
  /\ UNCHANGED <<auxVars, trackerVars, lockVars, agentVars>>

\* ---------------------------------------------- runAdam / performActions
\* processIssue returns fw to the for..of loop of performActions
Return(a, fw) ==
  /\ pc' = [pc EXCEPT ![a] = "pa_next"]
  /\ foundWork' = [foundWork EXCEPT ![a] = fw]
  /\ updateSuccess' = [updateSuccess EXCEPT ![a] = FALSE]
  /\ currentState' = [currentState EXCEPT ![a] = "none"]
  /\ finalState' = [finalState EXCEPT ![a] = "none"]

\* the first issue of list is handed to processIssue, or the cycle is over
Iterate(a, list) ==
  IF list = <<>>
    THEN /\ pc' = [pc EXCEPT ![a] = "sleep"]
         /\ cur' = [cur EXCEPT ![a] = NoIssue]
         /\ todo' = [todo EXCEPT ![a] = <<>>]
    ELSE /\ pc' = [pc EXCEPT ![a] = "pi_start"]
         /\ cur' = [cur EXCEPT ![a] = Head(list)]
         /\ todo' = [todo EXCEPT ![a] = Tail(list)]

\* runAdam's next cycle: checkClaudePermissions, pollLinear, first issue.
\* The relations of the cycle's issues are all resolved or all unresolvable,
\* and the label reads of the lock filter are answered: a failed one makes the
\* issue a candidate like one without an agent label, which issue 1 is in every
\* scenario of Init. The empty list is a refused permission check or a failed
\* fetch.
performActions(a) ==
  /\ pc[a] = "sleep"
  /\ \/ \E resolved \in BOOLEAN :
          Iterate(a, pollLinear(a, TRUE, IF resolved THEN {} ELSE blocks, {}))
     \/ Iterate(a, <<>>)
  /\ UNCHANGED <<auxVars, trackerVars, hostVars, lockVars, cloned, updateSuccess,
                 currentState, finalState, foundWork>>

RestOfCycle_NoShortCircuit(fw, rest) == rest

\* the for..of loop of performActions: `if (foundWork) return` drops the
\* issues not yet processed
RestOfCycle(fw, rest) == IF fw THEN <<>> ELSE rest

\* performActions after processIssue returned: stop on work, else next issue
performActions_next(a) ==
  /\ pc[a] = "pa_next"
  /\ Iterate(a, RestOfCycle(foundWork[a], todo[a]))
  /\ foundWork' = [foundWork EXCEPT ![a] = FALSE]
  /\ UNCHANGED <<auxVars, trackerVars, hostVars, lockVars, cloned, updateSuccess,
                 currentState, finalState>>

\* ----------------------------------------------------------- processIssue
\* the repository check, ensureRepositoryExists (a no-op once the clone
\* exists, else clone and commit identity) and checkoutBranch
PassesHardStops_NoCloneTest(repository, repoExists, checkedOutBranch) ==
  repository /\ checkedOutBranch

\* the three early returns of processIssue: repository owner and name,
\* ensureRepositoryExists, checkoutBranch
PassesHardStops(repository, repoExists, checkedOutBranch) ==
  repository /\ repoExists /\ checkedOutBranch

processIssue_checkout(a) ==
  /\ pc[a] = "pi_start"
  /\ \E c \in IF cur[a].repository /\ cloned[a] = "absent"
                 THEN {"absent", "configured"} ELSE {cloned[a]},
        checkedOutBranch \in BOOLEAN :
       /\ cloned' = [cloned EXCEPT ![a] = c]
       /\ IF PassesHardStops(cur[a].repository, c = "configured", checkedOutBranch)
            THEN /\ pc' = [pc EXCEPT ![a] = "pi_findpr"]
                 /\ UNCHANGED <<updateSuccess, currentState, finalState,
                                foundWork>>
            ELSE Return(a, FALSE)
  /\ UNCHANGED <<auxVars, trackerVars, hostVars, lockVars, todo, cur>>

\* findExistingPR and the branch on its result
processIssue_findExistingPR(a) ==
  /\ pc[a] = "pi_findpr"
  /\ \E ok \in BOOLEAN :
       LET existingPR == findExistingPR(prs[cur[a].id], ok)
       IN  IF existingPR = "merged" THEN Return(a, FALSE)
           ELSE /\ pc' = [pc EXCEPT ![a] =
                            IF existingPR = "open" THEN "pi_existing" ELSE "pi_update"]
                /\ UNCHANGED <<updateSuccess, currentState, finalState, foundWork>>
  /\ UNCHANGED <<auxVars, trackerVars, hostVars, lockVars, todo, cur, cloned>>

\* processExistingPR: true when conversation threads were processed
processExistingPR(a) ==
  /\ pc[a] = "pi_existing"
  /\ \E fw \in BOOLEAN : Return(a, fw)
  /\ UNCHANGED <<auxVars, trackerVars, hostVars, lockVars, todo, cur, cloned>>

\* linear.js updateIssueToInProgress: only an issue object in Todo is updated
NeedsUpdate(state) == state = "Todo"

\* updateIssueToInProgress: issue.state is the state recorded in the issue
\* object; the write (or getInProgressStateId before it) can fail
updateIssueToInProgress(a) ==
  /\ pc[a] = "pi_update"
  /\ IF ~NeedsUpdate(cur[a].state)
       THEN /\ updateSuccess' = [updateSuccess EXCEPT ![a] = TRUE]
            /\ pc' = [pc EXCEPT ![a] = "pi_recheck"]
            /\ UNCHANGED <<issueState, currentState, finalState, foundWork>>
       ELSE \/ /\ issueState' = [issueState EXCEPT ![cur[a].id] = "In Progress"]
               /\ updateSuccess' = [updateSuccess EXCEPT ![a] = TRUE]
               /\ pc' = [pc EXCEPT ![a] = "pi_recheck"]
               /\ UNCHANGED <<currentState, finalState, foundWork>>
            \/ /\ Return(a, FALSE)
               /\ UNCHANGED issueState
  /\ UNCHANGED <<auxVars, labels, orgLabels, blocks, edits, hostVars, lockVars, todo, cur, cloned>>

\* mutant of MayImplement: the Done test is dropped
MayImplement_NoDoneTest(state) == state # "null"

\* processIssue's test of the re-fetched issue: "null" is a failed re-fetch
MayImplement(state) ==
  /\ state # "null"
  /\ state # "Done"
  /\ state \in Workable

\* checkIssueStatus before implementing
processIssue_recheck(a) ==
  /\ pc[a] = "pi_recheck"
  /\ \E state \in {issueState[cur[a].id], "null"} :
       IF MayImplement(state)
         THEN /\ currentState' = [currentState EXCEPT ![a] = state]
              /\ pc' = [pc EXCEPT ![a] = "pi_implement"]
              /\ UNCHANGED <<updateSuccess, finalState, foundWork>>
         ELSE Return(a, FALSE)
  /\ UNCHANGED <<auxVars, trackerVars, hostVars, lockVars, todo, cur, cloned>>

\* callClaude(prompt): a result, no result, or a rejected promise, which
\* leaves processIssue and performActions and is caught by runAdam
processIssue_callClaude(a) ==
  /\ pc[a] = "pi_implement"
  /\ \/ /\ pc' = [pc EXCEPT ![a] = "pi_final"]
        /\ UNCHANGED <<todo, cur, updateSuccess, currentState, finalState, foundWork>>
     \/ /\ Return(a, TRUE)
        /\ UNCHANGED <<todo, cur>>
     \/ /\ Iterate(a, <<>>)
        /\ updateSuccess' = [updateSuccess EXCEPT ![a] = FALSE]
        /\ currentState' = [currentState EXCEPT ![a] = "none"]
        /\ UNCHANGED <<finalState, foundWork>>
  /\ UNCHANGED <<auxVars, trackerVars, hostVars, lockVars, cloned>>

\* processIssue's final check: stop only if the re-fetch worked and shows Done
StopsBeforePR(state) == state # "null" /\ state = "Done"

\* checkIssueStatus before creating the PR
processIssue_finalCheck(a) ==
  /\ pc[a] = "pi_final"
  /\ \E state \in {issueState[cur[a].id], "null"} :
       IF StopsBeforePR(state)
         THEN Return(a, TRUE)
         ELSE /\ finalState' = [finalState EXCEPT ![a] = state]
              /\ pc' = [pc EXCEPT ![a] = "pi_createpr"]
              /\ UNCHANGED <<updateSuccess, currentState, foundWork>>
  /\ UNCHANGED <<auxVars, trackerVars, hostVars, lockVars, todo, cur, cloned>>

\* createPR: push, description, pulls.create; null when a step throws. The
\* platform refuses a second open pull request for the same head branch.
createPR(a) ==
  /\ pc[a] = "pi_createpr"
  /\ \/ /\ ~HasOpen(prs[cur[a].id])
        /\ Len(prs[cur[a].id]) < MaxPRs
        /\ prs' = [prs EXCEPT ![cur[a].id] = Append(@, "open")]
     \/ UNCHANGED prs
  /\ Return(a, TRUE)
  /\ UNCHANGED <<auxVars, trackerVars, lockVars, todo, cur, cloned>>

Next ==
  \/ \E i \in Issues, s \in States : TrackerSetState(i, s)
  \/ \E i \in Issues, k \in 1..MaxPRs : PlatformMergePR(i, k)
  \/ \E i \in Issues, k \in 1..MaxPRs : PlatformClosePR(i, k)
  \/ \E a \in Agents : performActions(a)
  \/ \E a \in Agents : performActions_next(a)
  \/ \E a \in Agents : processIssue_checkout(a)
  \/ \E a \in Agents : processIssue_findExistingPR(a)
  \/ \E a \in Agents : processExistingPR(a)
  \/ \E a \in Agents : updateIssueToInProgress(a)
  \/ \E a \in Agents : processIssue_recheck(a)
  \/ \E a \in Agents : processIssue_callClaude(a)
  \/ \E a \in Agents : processIssue_finalCheck(a)
  \/ \E a \in Agents : createPR(a)

Spec == Init /\ [][Next]_vars

\* -------------------------------------------------------- claims on Spec
\* the positions of processIssue after the branch was checked out
Working(a) ==
  pc[a] \in {"pi_findpr", "pi_existing", "pi_update", "pi_recheck",
             "pi_implement", "pi_final", "pi_createpr"}

\* C1: at most one agent works a given issue at a time: no two agents are
\* inside processIssue, past the checkout, for the same issue.
OneAgentPerIssue ==
  \A a, b \in Agents :
    (a # b /\ Working(a) /\ Working(b)) => cur[a].id # cur[b].id

\* C5: at most one pull request is ever created per issue branch.
AtMostOnePRPerBranch ==
  \A i \in Issues : Len(prs[i]) <= 1

\* C6: merged-PR short-circuit. When the branch has no open pull request and
\* a merged one, processIssue stops at the lookup: it returns false and goes
\* on neither to the state update nor to the assistant nor to createPR.
MergedShortCircuit ==
  [][\A a \in Agents :
       (/\ pc[a] = "pi_findpr" /\ pc'[a] # "pi_findpr"
        /\ ~HasOpen(prs[cur[a].id]) /\ HasMerged(prs[cur[a].id]))
         => (pc'[a] = "pa_next" /\ ~foundWork'[a])]_vars

\* C7: all work on an issue happens under its lock: while an agent is inside
\* processIssue past the checkout, its own agent label is attached to the issue.
WorkUnderLock ==
  \A a \in Agents : Working(a) => getAgentLabelName(a) \in labels[cur[a].id]

\* C8: the agents change the state of an issue only from Todo (to In
\* Progress): every state change that is not a tracker user's edit starts
\* from the tracker state Todo.
OnlyTodoIsUpdated ==
  [][\A i \in Issues :
       (issueState'[i] # issueState[i] /\ edits' = edits)
         => (issueState[i] = "Todo" /\ issueState'[i] = "In Progress")]_vars

CheckpointStep(a) ==
  LET i == cur[a].id
  IN  /\ (pc'[a] = "pi_implement" /\ pc[a] # "pi_implement")
           => /\ pc[a] = "pi_recheck"
              /\ issueState[i] \in Workable
              /\ currentState'[a] = issueState[i]
      /\ (pc[a] \in {"pi_update", "pi_recheck"} /\ pc'[a] \notin {"pi_update", "pi_recheck"})
           => \/ pc'[a] = "pi_implement"
              \/ pc'[a] = "pa_next" /\ ~foundWork'[a]
      /\ (pc[a] = "pi_update" /\ pc'[a] = "pi_recheck") => updateSuccess'[a]

\* C9: checkpoint before implementing. The assistant is invoked for an issue
\* only after updateIssueToInProgress succeeded and the re-fetch that follows
\* succeeded and showed Todo, In Progress or In Review; a failed update, a
\* failed re-fetch and any other state end processIssue with "no work".
CheckpointBeforeImplementing ==
  /\ [](\A a \in Agents :
          pc[a] = "pi_implement" => (updateSuccess[a] /\ currentState[a] \in Workable))
  /\ [][\A a \in Agents : CheckpointStep(a)]_vars

\* C9 witness: an agent is about to invoke the assistant for an issue it was
\* handed as Todo, after its update and a re-fetch that showed In Progress.
ImplementAfterCheckpoint ==
  \E a \in Agents :
    /\ pc[a] = "pi_implement"
    /\ cur[a].state = "Todo"
    /\ updateSuccess[a]
    /\ currentState[a] = "In Progress"

\* C10: final checkpoint. createPR is not invoked for an issue whose tracker
\* state is Done when the final recheck after the assistant's run is made.
FinalCheckpoint ==
  [][\A a \in Agents :
       (pc[a] = "pi_final" /\ issueState[cur[a].id] = "Done")
         => pc'[a] # "pi_createpr"]_vars

\* C14: when processIssue returned true, performActions processes no further
\* issue of the cycle's list (the cycle ends with the list dropped); when it
\* returned false, the next issue of the list is handed to processIssue.
WorkFoundShortCircuit ==
  [][\A a \in Agents :
       pc[a] = "pa_next" /\ pc'[a] # "pa_next" =>
         IF foundWork[a] \/ todo[a] = <<>>
           THEN pc'[a] = "sleep" /\ todo'[a] = <<>> /\ cur'[a] = NoIssue
           ELSE /\ pc'[a] = "pi_start"
                /\ cur'[a] = Head(todo[a])
                /\ todo'[a] = Tail(todo[a])]_vars

\* processIssue returned true while issues of the list are still unprocessed
WorkFoundWithIssuesLeft ==
  \E a \in Agents : pc[a] = "pa_next" /\ foundWork[a] /\ todo[a] # <<>>

\* processIssue returned false while issues of the list are still unprocessed
NoWorkWithIssuesLeft ==
  \E a \in Agents : pc[a] = "pa_next" /\ ~foundWork[a] /\ todo[a] # <<>>

\* C19: createPR is called only after ensureChangesCommitted has run in this
\* processing: whenever an agent is about to call createPR, a commit
\* verification has returned.
CommitVerifiedBeforePR ==
  \A a \in Agents : pc[a] = "pi_createpr" => epc = "ec_done" /\ commitRet # "none"

\* ================================================ SpecPoll: pollLinear
\* the labels an assigned issue can carry when it is polled
PollLabelSets ==
  {{}, {RepoLabel}, {RepoLabel, StaleLabel},
   {RepoLabel, getAgentLabelName(1)}, {RepoLabel, getAgentLabelName(NumAgents)},
   {RepoLabel, getAgentLabelName(1), getAgentLabelName(NumAgents)}}

\* any tracker content: states, labels and "blocks" relations of the issues
InitPoll ==
  /\ labels \in [Issues -> PollLabelSets]
  /\ issueState \in [Issues -> States]
  /\ blocks \in SUBSET {r \in Issues \X Issues : r[1] # r[2]}
  /\ orgLabels = UNION PollLabelSets
  /\ edits = 0
  /\ prs = [i \in Issues |-> <<>>]
  /\ LockIdle
  /\ AgentIdle
  /\ PollIdle /\ LoopIdle /\ CommitIdle /\ PushIdle
  /\ UpdIdle /\ RepoIdle /\ ThrIdle /\ ConvIdle /\ LookIdle /\ StudyIdle

\* agent a calls pollLinear; the issues the call returns are kept by id
pollLinear_call(a, fetchedOk, unresolvable, unreadable) ==
  /\ pollArgs = {}
  /\ pollArgs' = {[agent |-> a, fetchedOk |-> fetchedOk,
                   unresolvable |-> unresolvable, unreadable |-> unreadable]}
  /\ LET r == pollLinear(a, fetchedOk, unresolvable, unreadable)
     IN  pollResult' = [k \in 1..Len(r) |-> r[k].id]
  /\ UNCHANGED <<coreVars, callVars, loopVars, commitVars, pushVars>>

NextPoll ==
  \E a \in Agents, fetchedOk \in BOOLEAN,
     unresolvable \in SUBSET blocks, unreadable \in SUBSET Issues :
    pollLinear_call(a, fetchedOk, unresolvable, unreadable)

SpecPoll == InitPoll /\ [][NextPoll]_vars

\* the issues the contract of pollLinear names, for caller a: workable, no
\* resolvable "blocks" relation from an issue that is not Done, no agent label
\* of another agent
Claimable(i, a, unresolvable) ==
  /\ issueState[i] \in Workable
  /\ ~\E j \in Issues : /\ <<j, i>> \in blocks \ unresolvable
                        /\ issueState[j] # "Done"
  /\ ~\E n \in labels[i] : startsWithAgent(n) /\ n # getAgentLabelName(a)

\* C13: when the assigned issues were fetched, pollLinear returns, in fetch
\* order, exactly the workable issues without a resolvable blocking relation
\* from an issue that is not Done and without another agent's label.
PollReturnsClaimable ==
  \A c \in pollArgs :
    c.fetchedOk =>
      pollResult = SelectSeq(AllIssues,
                             LAMBDA i : Claimable(i, c.agent, c.unresolvable))

\* the same with every label read of the lock filter answered and every
\* relation resolved: the filters agree with the contract
PollReturnsClaimableWhenAnswered ==
  \A c \in pollArgs :
    c.fetchedOk /\ c.unreadable = {} /\ c.unresolvable = {} =>
      pollResult = SelectSeq(AllIssues,
                             LAMBDA i : Claimable(i, c.agent, c.unresolvable))

\* ================================================== SpecLoop: runAdam
MaxInterval == 3
MaxElapsed == 4
DefaultPollInterval == 30

\* process.env.POLL_INTERVAL: not set (or not a number), or a number of seconds
EnvIntervals ==
  {[number |-> FALSE, seconds |-> 0]}
    \cup {[number |-> TRUE, seconds |-> n] : n \in 0..MaxInterval}

\* `parseInt(process.env.POLL_INTERVAL) || 30`: NaN and 0 give the default
parsePollInterval(env) ==
  IF ~env.number \/ env.seconds = 0 THEN DefaultPollInterval ELSE env.seconds

\* how one performActions call can end: it returned after processIssue found
\* work, after the list was worked through without work, or after the
\* permission check failed; or it threw, as it does when the assistant process
\* exits non-zero inside processIssue, or when anything else in it throws
Outcomes == {"work", "nowork", "denied", "assistantFailed", "threw"}

Throws(o) == o \in {"assistantFailed", "threw"}

InitLoop ==
  /\ labels = [i \in Issues |-> {RepoLabel}]
  /\ issueState = [i \in Issues |-> "Todo"]
  /\ blocks = {}
  /\ orgLabels = {RepoLabel}
  /\ edits = 0
  /\ prs = [i \in Issues |-> <<>>]
  /\ LockIdle
  /\ AgentIdle
  /\ PollIdle /\ CommitIdle /\ PushIdle
  /\ UpdIdle /\ RepoIdle /\ ThrIdle /\ ConvIdle /\ LookIdle /\ StudyIdle
  /\ rpc = "top"
  /\ \E env \in EnvIntervals : pollIntervalSeconds = parsePollInterval(env)
  /\ elapsed = 0
  /\ outcome = "none"

AfterBody_NoCatch(o) == IF Throws(o) THEN "exited" ELSE "timing"

\* try { await performActions() } catch (error) { ... }: where the loop goes
\* on after the body ended with o
AfterBody(o) == IF Throws(o) THEN "catch" ELSE "timing"

\* one cycle's body: performActions ends with o after e seconds
runAdam_performActions(o, e) ==
  /\ rpc = "top"
  /\ outcome' = o
  /\ elapsed' = e
  /\ rpc' = AfterBody(o)
  /\ UNCHANGED <<coreVars, callVars, pollVars, commitVars, pushVars, pollIntervalSeconds>>

\* the catch block logs error.message
runAdam_catch ==
  /\ rpc = "catch"
  /\ rpc' = "timing"
  /\ UNCHANGED <<coreVars, callVars, pollVars, commitVars, pushVars, pollIntervalSeconds,
                 elapsed, outcome>>

\* local of runAdam
remaining == pollIntervalSeconds - elapsed

\* `if (remaining > 0) await new Promise(... setTimeout(resolve, remaining))`
runAdam_timing ==
  /\ rpc = "timing"
  /\ rpc' = IF remaining > 0 THEN "asleep" ELSE "top"
  /\ UNCHANGED <<coreVars, callVars, pollVars, commitVars, pushVars, pollIntervalSeconds,
                 elapsed, outcome>>

\* the timer fires
runAdam_wake ==
  /\ rpc = "asleep"
  /\ rpc' = "top"
  /\ UNCHANGED <<coreVars, callVars, pollVars, commitVars, pushVars, pollIntervalSeconds,
                 elapsed, outcome>>

NextLoop ==
  \/ \E o \in Outcomes, e \in 0..MaxElapsed : runAdam_performActions(o, e)
  \/ runAdam_catch
  \/ runAdam_timing
  \/ runAdam_wake

SpecLoop == InitLoop /\ [][NextLoop]_vars

\* the catch block, the time arithmetic and the timer do not hang
SpecLoopFair ==
  SpecLoop /\ WF_vars(runAdam_catch) /\ WF_vars(runAdam_timing) /\ WF_vars(runAdam_wake)

\* C15: after a cycle in which work was found the loop does not sleep for the
\* remainder of the poll interval: the next cycle begins at once.
NoSleepAfterWork ==
  [][rpc = "timing" /\ outcome = "work" => rpc' = "top"]_vars

\* C16: no exception of a cycle's body ends the loop: the loop never exits,
\* a thrown error goes to the catch block, and from there a next cycle
\* always follows.
LoopSurvivesErrors ==
  /\ [](rpc # "exited")
  /\ [][rpc = "top" /\ Throws(outcome') => rpc' = "catch"]_vars
  /\ (rpc = "catch") ~> (rpc = "top")

\* a next cycle is about to begin after a cycle whose assistant process failed
NextCycleAfterAssistantFailure ==
  rpc = "top" /\ outcome = "assistantFailed"

\* ==================================== SpecCommit: ensureChangesCommitted
MaxFiles == 2
maxRetries == 3

\* the call begins with any number of uncommitted files in the working tree
InitCommit ==
  /\ labels = [i \in Issues |-> {RepoLabel}]
  /\ issueState = [i \in Issues |-> "In Review"]
  /\ blocks = {}
  /\ orgLabels = {RepoLabel}
  /\ edits = 0
  /\ prs = [i \in Issues |-> <<>>]
  /\ LockIdle
  /\ AgentIdle
  /\ PollIdle /\ LoopIdle /\ PushIdle
  /\ UpdIdle /\ RepoIdle /\ ThrIdle /\ ConvIdle /\ LookIdle /\ StudyIdle
  /\ epc = "ec_status"
  /\ retry = 0
  /\ invocations = 0
  /\ statusErrors = 0
  /\ files \in 0..MaxFiles
  /\ stayedDirty = (files > 0)
  /\ commitRet = "none"

LoopContinues_OneMore(r) == r <= maxRetries

\* `while (retry < maxRetries)`
LoopContinues(r) == r < maxRetries

\* `retry++`, then the loop test: the next attempt, or `return false`
commitRetry ==
  /\ retry' = retry + 1
  /\ epc' = IF LoopContinues(retry + 1) THEN "ec_status" ELSE "ec_done"
  /\ commitRet' = IF LoopContinues(retry + 1) THEN commitRet ELSE "false"

\* `return true`
commitReturnTrue ==
  /\ epc' = "ec_done"
  /\ commitRet' = "true"
  /\ UNCHANGED retry

\* the attempt's first git.status(): answered (ok) or thrown
ensureChangesCommitted_status(ok) ==
  /\ epc = "ec_status"
  /\ IF ~ok THEN commitRetry /\ statusErrors' = statusErrors + 1
     ELSE /\ UNCHANGED statusErrors
          /\ IF files = 0 THEN commitReturnTrue
             ELSE epc' = "ec_claude" /\ UNCHANGED <<retry, commitRet>>
  /\ UNCHANGED <<coreVars, callVars, pollVars, loopVars, pushVars, invocations, files,
                 stayedDirty>>

\* callClaude(commitPrompt): the assistant leaves f uncommitted files and the
\* call returns a result (r = "truthy"), returns none ("falsy") or throws
ensureChangesCommitted_callClaude(r, f) ==
  /\ epc = "ec_claude"
  /\ invocations' = invocations + 1
  /\ files' = f
  /\ stayedDirty' = (stayedDirty /\ f > 0)
  /\ IF r = "truthy" THEN epc' = "ec_verify" /\ UNCHANGED <<retry, commitRet>>
     ELSE commitRetry
  /\ UNCHANGED <<coreVars, callVars, pollVars, loopVars, pushVars, statusErrors>>

\* the verifying git.status() after an assistant call that returned a result
ensureChangesCommitted_verify(ok) ==
  /\ epc = "ec_verify"
  /\ IF ok /\ files = 0 THEN commitReturnTrue ELSE commitRetry
  /\ statusErrors' = IF ok THEN statusErrors ELSE statusErrors + 1
  /\ UNCHANGED <<coreVars, callVars, pollVars, loopVars, pushVars, invocations, files,
                 stayedDirty>>

NextCommit ==
  \/ \E ok \in BOOLEAN : ensureChangesCommitted_status(ok)
  \/ \E r \in {"truthy", "falsy", "threw"}, f \in 0..MaxFiles :
       ensureChangesCommitted_callClaude(r, f)
  \/ \E ok \in BOOLEAN : ensureChangesCommitted_verify(ok)

SpecCommit == InitCommit /\ [][NextCommit]_vars

\* what is left of the call: attempts first, then the steps of one attempt
commitRank ==
  IF epc = "ec_done" THEN 0
  ELSE 3 * (maxRetries + 1 - retry)
         + (IF epc = "ec_status" THEN 2 ELSE IF epc = "ec_claude" THEN 1 ELSE 0)

SuccessByObservation ==
  epc = "ec_done" /\ statusErrors = 0 /\ invocations > 0 /\ files = 0 =>
    commitRet = "true"

\* ============================== SpecPush: pushBranchAndMergeIfNecessary
MaxCommits == 4

\* the call begins on a branch with local commits to push, any number of
\* commits behind origin/<base>
InitPush ==
  /\ labels = [i \in Issues |-> {RepoLabel}]
  /\ issueState = [i \in Issues |-> "In Review"]
  /\ blocks = {}
  /\ orgLabels = {RepoLabel}
  /\ edits = 0
  /\ prs = [i \in Issues |-> <<"open">>]
  /\ LockIdle
  /\ AgentIdle
  /\ PollIdle /\ LoopIdle /\ CommitIdle
  /\ UpdIdle /\ RepoIdle /\ ThrIdle /\ ConvIdle /\ LookIdle /\ StudyIdle
  /\ ppc = "push1"
  /\ pushes = 0
  /\ fetched = FALSE
  /\ mergeStep = "none"
  /\ pushedOk = FALSE
  /\ pushRet = "none"
  /\ behind \in 0..MaxCommits
  /\ unpushed \in 0..MaxCommits

\* `return true` / `return false`
pushReturn(r) ==
  /\ ppc' = "done"
  /\ pushRet' = r

\* git.push('origin', branchName): accepted by the remote (ok) or thrown
gitPush(ok) ==
  /\ pushes' = pushes + 1
  /\ pushedOk' = (pushedOk \/ ok)
  /\ unpushed' = IF ok THEN 0 ELSE unpushed

\* the first, plain push
pushBranchAndMergeIfNecessary_push(ok) ==
  /\ ppc = "push1"
  /\ gitPush(ok)
  /\ IF ok THEN pushReturn("true") ELSE ppc' = "fetch" /\ UNCHANGED pushRet
  /\ UNCHANGED <<coreVars, callVars, pollVars, loopVars, commitVars, fetched, mergeStep, behind>>

\* mergeOriginIfNecessary, git.fetch(): it throws, or it answers and
\* origin/<base> is then b commits ahead of the branch
mergeOriginIfNecessary_fetch(ok, b) ==
  /\ ppc = "fetch"
  /\ fetched' = TRUE
  /\ IF ok THEN /\ behind' = b
                /\ ppc' = "merge"
                /\ UNCHANGED <<mergeStep, pushRet>>
     ELSE /\ mergeStep' = "threw"
          /\ pushReturn("false")
          /\ UNCHANGED behind
  /\ UNCHANGED <<coreVars, callVars, pollVars, loopVars, commitVars, pushes, pushedOk, unpushed>>

RetryPush_Always(step) == TRUE

\* `if (!mergeResult.success) return false`; a throw of the merge step goes
\* to the catch block, which returns false
RetryPush(step) == step \in {"uptodate", "merged"}

\* mergeOriginIfNecessary after the fetch: nothing to merge, or
\* performIntelligentMerge with outcome m
mergeOriginIfNecessary_merge(m) ==
  /\ ppc = "merge"
  /\ LET step == IF behind = 0 THEN "uptodate" ELSE m
     IN  /\ mergeStep' = step
         /\ behind' = IF step = "merged" THEN 0 ELSE behind
         /\ unpushed' = IF step = "merged" /\ unpushed < MaxCommits + 1
                          THEN unpushed + 1 ELSE unpushed
         /\ IF RetryPush(step) THEN ppc' = "push2" /\ UNCHANGED pushRet
            ELSE pushReturn("false")
  /\ UNCHANGED <<coreVars, callVars, pollVars, loopVars, commitVars, pushes, fetched, pushedOk>>

\* the push after the merge step
pushBranchAndMergeIfNecessary_pushAgain(ok) ==
  /\ ppc = "push2"
  /\ gitPush(ok)
  /\ pushReturn(IF ok THEN "true" ELSE "false")
  /\ UNCHANGED <<coreVars, callVars, pollVars, loopVars, commitVars, fetched, mergeStep, behind>>

NextPush ==
  \/ \E ok \in BOOLEAN : pushBranchAndMergeIfNecessary_push(ok)
  \/ \E ok \in BOOLEAN, b \in 0..MaxCommits : mergeOriginIfNecessary_fetch(ok, b)
  \/ \E m \in {"merged", "failed", "threw"} : mergeOriginIfNecessary_merge(m)
  \/ \E ok \in BOOLEAN : pushBranchAndMergeIfNecessary_pushAgain(ok)

SpecPush == InitPush /\ [][NextPush]_vars

\* C20: the push is two-phase. A first push that succeeds returns true with
\* no fetch and no merge; fetch and merge run only after a failed first push;
\* the second push is made only after a merge step that succeeded, and then
\* exactly once; there are at most two pushes; and true is returned if and
\* only if a push succeeded.
TwoPhasePush ==
  /\ pushes <= 2
  /\ ppc = "done" => (pushRet = "true" <=> pushedOk)
  /\ ppc = "done" => pushes >= 1
  /\ pushes = 1 /\ pushedOk =>
       ppc = "done" /\ pushRet = "true" /\ ~fetched /\ mergeStep = "none"
  /\ fetched \/ mergeStep # "none" \/ ppc \in {"fetch", "merge", "push2"} =>
       pushes >= 1 /\ (pushes = 1 => ~pushedOk)
  /\ pushes = 2 \/ ppc = "push2" => fetched /\ mergeStep \in {"uptodate", "merged"}
  /\ mergeStep \in {"failed", "threw"} =>
       ppc = "done" /\ pushRet = "false" /\ pushes = 1 /\ ~pushedOk
  /\ ppc = "done" /\ mergeStep \in {"uptodate", "merged"} => pushes = 2

\* the first push failed, the merge step merged, the second push succeeded
PushedAfterMerge ==
  /\ ppc = "done" /\ pushRet = "true"
  /\ pushes = 2 /\ mergeStep = "merged" /\ fetched

\* the merge step failed after a failed first push: one push, false returned
MergeFailedNoSecondPush ==
  ppc = "done" /\ pushRet = "false" /\ pushes = 1 /\ mergeStep = "failed"

\* ========================================= SpecUpdate: updateExistingPR
MaxConflicted == 2

\* the call begins with origin/<base> any number of commits ahead of the branch
InitUpdate ==
  /\ labels = [i \in Issues |-> {RepoLabel}]
  /\ issueState = [i \in Issues |-> "In Review"]
  /\ blocks = {}
  /\ orgLabels = {RepoLabel}
  /\ edits = 0
  /\ prs = [i \in Issues |-> <<"open">>]
  /\ LockIdle
  /\ AgentIdle
  /\ PollIdle /\ LoopIdle /\ CommitIdle /\ PushIdle
  /\ RepoIdle /\ ThrIdle /\ ConvIdle /\ LookIdle /\ StudyIdle
  /\ \E b \in 0..MaxCommits :
       upd = [pc |-> "checkout",
              behind |-> b,          \* commits of origin/<base> the branch lacks
              invoked |-> 0,         \* callClaude calls made
              claude |-> "none",     \* how the callClaude call ended
              conflicted |-> 0,      \* postMergeStatus.conflicted.length
              result |-> "none",     \* what mergeOriginIfNecessary answered
              pushes |-> 0,          \* git.push calls made
              ret |-> "none"]        \* the call's return

\* `return true` / `return false` of updateExistingPR
updReturn(u, r) == [u EXCEPT !.pc = "done", !.ret = r]

\* a git command of updateExistingPR before the merge helper: it answers and
\* the call goes on at position next, or it throws into the catch block
updGit(here, next, ok) ==
  /\ upd.pc = here
  /\ upd' = IF ok THEN [upd EXCEPT !.pc = next] ELSE updReturn(upd, "false")
  /\ UNCHANGED <<coreVars, funVars, studyVars, repo, thr, conv, look>>

updateExistingPR_checkout(ok) == updGit("checkout", "pull", ok)

updateExistingPR_pull(ok) == updGit("pull", "fetch", ok)

\* mergeOriginIfNecessary: git.fetch() and git.log of HEAD..origin/<base>
updateExistingPR_fetch(ok) == updGit("fetch", "merge", ok)

\* performIntelligentMerge: callClaude returned a result (c = "truthy"), none
\* ("falsy") or threw; then git.status() answered n conflicted files, or threw
performIntelligentMerge(c, statusOk, n) ==
  IF c = "threw" THEN "threw"
  ELSE IF c = "falsy" THEN "failed"
  ELSE IF ~statusOk THEN "threw"
  ELSE IF n > 0 THEN "failed"
  ELSE "merged"

\* mergeOriginIfNecessary after the fetch: behindCommits.all.length > 0 decides
\* whether performIntelligentMerge runs
updateExistingPR_merge(c, statusOk, n) ==
  /\ upd.pc = "merge"
  /\ upd' = IF upd.behind = 0
              THEN [upd EXCEPT !.result = "uptodate", !.pc = "finish"]
              ELSE [upd EXCEPT !.result = performIntelligentMerge(c, statusOk, n),
                               !.invoked = @ + 1,
                               !.claude = c,
                               !.conflicted = n,
                               !.pc = "finish"]
  /\ UNCHANGED <<coreVars, funVars, studyVars, repo, thr, conv, look>>

PushNeeded_Always(result) == TRUE

\* `if (mergeResult.merged)`
PushNeeded(result) == result = "merged"

\* updateExistingPR after the merge helper: `if (!mergeResult.success) return
\* false` (a throw of the helper went to the catch block), the push when a
\* merge occurred, `return true`
updateExistingPR_finish(ok) ==
  /\ upd.pc = "finish"
  /\ upd' = IF upd.result \in {"failed", "threw"} THEN updReturn(upd, "false")
            ELSE IF PushNeeded(upd.result)
              THEN updReturn([upd EXCEPT !.pushes = @ + 1],
                             IF ok THEN "true" ELSE "false")
            ELSE updReturn(upd, "true")
  /\ UNCHANGED <<coreVars, funVars, studyVars, repo, thr, conv, look>>

NextUpdate ==
  \/ \E ok \in BOOLEAN : updateExistingPR_checkout(ok)
  \/ \E ok \in BOOLEAN : updateExistingPR_pull(ok)
  \/ \E ok \in BOOLEAN : updateExistingPR_fetch(ok)
  \/ \E c \in {"truthy", "falsy", "threw"}, statusOk \in BOOLEAN,
        n \in 0..MaxConflicted : updateExistingPR_merge(c, statusOk, n)
  \/ \E ok \in BOOLEAN : updateExistingPR_finish(ok)

SpecUpdate == InitUpdate /\ [][NextUpdate]_vars

\* C21 as stated: a call that finds the base 0 commits ahead invokes no
\* assistant, pushes nothing and returns true; a call that finds the base ahead
\* invokes the assistant, pushes only when that run returned a result and no
\* conflicted file remains, and otherwise returns false without a push.
PushOnlyIfMerged ==
  upd.pc = "done" =>
    IF upd.behind = 0
      THEN upd.invoked = 0 /\ upd.pushes = 0 /\ upd.ret = "true"
      ELSE /\ upd.invoked = 1
           /\ upd.pushes = 1 => upd.claude = "truthy" /\ upd.conflicted = 0
           /\ ~(upd.claude = "truthy" /\ upd.conflicted = 0) =>
                upd.ret = "false" /\ upd.pushes = 0

\* C21: a call whose git.checkout, git.pull, git.fetch or git.log throws
\* returns false with no assistant invoked and nothing pushed. Otherwise: with
\* the base 0 commits ahead it invokes no assistant, pushes nothing and
\* returns true; with the base ahead it invokes the assistant once, and it
\* pushes, once, only when that run returned a result and git.status() shows
\* no conflicted file, else it returns false without a push.
PushOnlyAfterMerge ==
  /\ upd.pc # "idle" =>
       /\ upd.behind = 0 => upd.invoked = 0 /\ upd.pushes = 0
       /\ upd.result = "none" => upd.invoked = 0 /\ upd.pushes = 0
       /\ upd.result # "none" =>
            /\ upd.result = "uptodate" <=> upd.behind = 0
            /\ upd.invoked = IF upd.behind = 0 THEN 0 ELSE 1
       /\ upd.pushes <= 1
       /\ upd.pushes = 1 =>
            /\ upd.behind > 0 /\ upd.result = "merged"
            /\ upd.claude = "truthy" /\ upd.conflicted = 0
       /\ upd.result \in {"failed", "threw"} => upd.pushes = 0
  /\ upd.pc = "done" =>
       /\ upd.result = "uptodate" => upd.ret = "true"
       /\ upd.result \in {"none", "failed", "threw"} => upd.ret = "false"
       /\ upd.result = "merged" => upd.pushes = 1
       /\ upd.ret = "true" => upd.result \in {"uptodate", "merged"}

\* a git command threw before the merge helper: false returned though the
\* base is 0 commits ahead
UpToDateButGitThrew ==
  /\ upd.pc = "done" /\ upd.ret = "false"
  /\ upd.behind = 0 /\ upd.result = "none"

\* the branch was up to date: true returned, no assistant, no push
UpToDateNoPush ==
  /\ upd.pc = "done" /\ upd.ret = "true"
  /\ upd.result = "uptodate" /\ upd.invoked = 0 /\ upd.pushes = 0

\* the assistant left conflicted files: false returned without a push
ConflictsNoPush ==
  /\ upd.pc = "done" /\ upd.ret = "false"
  /\ upd.claude = "truthy" /\ upd.conflicted > 0 /\ upd.pushes = 0

\* ========================================= SpecCheckout: checkoutBranch
MaxCalls == 2

\* what the local feature branch can point to: nothing (no such branch), the
\* tip of the branch on origin, the tip of the base branch, or anything else
\* (unpushed commits, a stale copy)
LocalTips == {"absent", "remote", "base", "other"}

\* a clone before the first checkoutBranch call
InitCheckout ==
  /\ labels = [i \in Issues |-> {RepoLabel}]
  /\ issueState = [i \in Issues |-> "Todo"]
  /\ blocks = {}
  /\ orgLabels = {RepoLabel}
  /\ edits = 0
  /\ prs = [i \in Issues |-> <<>>]
  /\ LockIdle
  /\ AgentIdle
  /\ PollIdle /\ LoopIdle /\ CommitIdle /\ PushIdle
  /\ UpdIdle /\ ThrIdle /\ ConvIdle /\ LookIdle /\ StudyIdle
  /\ \E remote \in BOOLEAN, tracking \in BOOLEAN, local \in LocalTips,
        dirty \in BOOLEAN, untracked \in BOOLEAN, merging \in BOOLEAN :
       /\ local = "remote" => remote
       /\ repo = [pc |-> "start",
                  calls |-> 0,            \* checkoutBranch calls begun
                  remote |-> remote,      \* the branch exists on origin
                  tracking |-> tracking,  \* the clone has remotes/origin/<branch>
                  local |-> local,        \* tip of the local feature branch
                  head |-> "base",        \* the branch that is checked out
                  dirty |-> dirty,        \* tracked files are modified
                  untracked |-> untracked, \* untracked files exist
                  merging |-> merging,    \* .git/MERGE_HEAD exists
                  failed |-> FALSE,       \* a git command threw in some call
                  ret |-> "none",         \* the last call's return
                  first |-> <<>>]         \* the tree the first call returned over

\* the working tree as git.status() lists it
Tree(r) == [tip |-> r.local, dirty |-> r.dirty, untracked |-> r.untracked]

Clean(r) == ~r.dirty /\ ~r.untracked

\* `return true` / `return false` of checkoutBranch, over repository r
coReturn(r, v) ==
  [r EXCEPT !.pc = "done", !.ret = v,
            !.first = IF r.calls = 1 /\ v = "true" THEN <<Tree(r)>> ELSE @]

\* a checkoutBranch call begins
checkoutBranch(first) ==
  /\ IF first THEN repo.pc = "start"
     ELSE /\ repo.pc \in {"done", "edited"}
          /\ repo.ret = "true" /\ repo.calls < MaxCalls
  /\ repo' = [repo EXCEPT !.pc = "clear", !.calls = @ + 1, !.ret = "none"]
  /\ UNCHANGED <<coreVars, funVars, studyVars, upd, thr, conv, look>>

\* between two calls something edits files of the working tree: tracked
\* files are modified (d), new files are created (u)
localEdit(d, u) ==
  /\ repo.pc = "done" /\ repo.ret = "true" /\ repo.calls < MaxCalls
  /\ d \/ u
  /\ repo' = [repo EXCEPT !.pc = "edited", !.dirty = @ \/ d, !.untracked = @ \/ u]
  /\ UNCHANGED <<coreVars, funVars, studyVars, upd, thr, conv, look>>

\* clearMergeState: `merge --abort`, else `reset --hard HEAD`; it never throws
checkoutBranch_clearMergeState(abortOk, resetOk) ==
  /\ repo.pc = "clear"
  /\ repo' = IF repo.merging /\ (abortOk \/ resetOk)
               THEN [repo EXCEPT !.pc = "exists", !.merging = FALSE, !.dirty = FALSE]
               ELSE [repo EXCEPT !.pc = "exists",
                                 !.failed = @ \/ repo.merging]
  /\ UNCHANGED <<coreVars, funVars, studyVars, upd, thr, conv, look>>

\* checkBranchExists: `git branch --all` lists the branch, locally or as a
\* remote-tracking ref; false when the command threw
checkBranchExists(r, ok) == ok /\ (r.local # "absent" \/ r.tracking)

checkoutBranch_exists(ok) ==
  /\ repo.pc = "exists"
  /\ repo' = [repo EXCEPT !.pc = IF checkBranchExists(repo, ok) THEN "checkout"
                                                                ELSE "create",
                          !.failed = @ \/ ~ok]
  /\ UNCHANGED <<coreVars, funVars, studyVars, upd, thr, conv, look>>

\* git.checkout(branchName) of an existing branch; a branch known only by
\* its remote-tracking ref is created from that ref, which is the tip on
\* origin when the ref is fresh
checkoutBranch_checkout(ok, fresh) ==
  /\ repo.pc = "checkout"
  /\ repo' = IF ~ok THEN coReturn([repo EXCEPT !.failed = TRUE], "false")
             ELSE [repo EXCEPT !.pc = "fetch",
                               !.head = "feature",
                               !.local = IF @ # "absent" THEN @
                                         ELSE IF repo.remote /\ fresh THEN "remote"
                                         ELSE "other"]
  /\ UNCHANGED <<coreVars, funVars, studyVars, upd, thr, conv, look>>

\* git.fetch('origin', branchName) and git.reset --hard origin/<branch>:
\* "reset" both answered, "noref" the fetch found no such branch on origin,
\* "error" one of them threw anything else, which the inner catch block logs
\* before checkoutBranch goes on to `return true`
checkoutBranch_fetchReset(o) ==
  /\ repo.pc = "fetch"
  /\ o = "reset" => repo.remote
  /\ o = "noref" => ~repo.remote
  /\ repo' = IF o = "reset"
               THEN coReturn([repo EXCEPT !.local = "remote", !.tracking = TRUE,
                                          !.dirty = FALSE, !.merging = FALSE],
                             "true")
             ELSE IF o = "noref" THEN [repo EXCEPT !.pc = "fallback"]
             ELSE coReturn([repo EXCEPT !.failed = TRUE], "true")
  /\ UNCHANGED <<coreVars, funVars, studyVars, upd, thr, conv, look>>

\* git.reset --hard origin/<base> when the branch is not on origin; a throw
\* goes to the outer catch block
checkoutBranch_fallback(ok) ==
  /\ repo.pc = "fallback"
  /\ repo' = IF ok
               THEN coReturn([repo EXCEPT !.local = "base", !.dirty = FALSE,
                                          !.merging = FALSE], "true")
               ELSE coReturn([repo EXCEPT !.failed = TRUE], "false")
  /\ UNCHANGED <<coreVars, funVars, studyVars, upd, thr, conv, look>>

\* the branch does not exist: git.checkout(base), git.pull(),
\* git.checkoutLocalBranch(branchName); modified and untracked files of the
\* working tree are carried along by the checkouts
checkoutBranch_create(ok) ==
  /\ repo.pc = "create"
  /\ repo' = IF ok /\ repo.local = "absent"
               THEN coReturn([repo EXCEPT !.local = "base", !.head = "feature"],
                             "true")
               ELSE coReturn([repo EXCEPT !.failed = TRUE], "false")
  /\ UNCHANGED <<coreVars, funVars, studyVars, upd, thr, conv, look>>

NextCheckout ==
  \/ \E first \in BOOLEAN : checkoutBranch(first)
  \/ \E d \in BOOLEAN, u \in BOOLEAN : localEdit(d, u)
  \/ \E abortOk \in BOOLEAN, resetOk \in BOOLEAN :
       checkoutBranch_clearMergeState(abortOk, resetOk)
  \/ \E ok \in BOOLEAN : checkoutBranch_exists(ok)
  \/ \E ok \in BOOLEAN, fresh \in BOOLEAN : checkoutBranch_checkout(ok, fresh)
  \/ \E o \in {"reset", "noref", "error"} : checkoutBranch_fetchReset(o)
  \/ \E ok \in BOOLEAN : checkoutBranch_fallback(ok)
  \/ \E ok \in BOOLEAN : checkoutBranch_create(ok)

SpecCheckout == InitCheckout /\ [][NextCheckout]_vars

\* C22: whenever checkoutBranch has returned true, the feature branch is
\* checked out and is the branch of origin exactly, local edits and unpushed
\* commits discarded, or, when origin has no such branch, the base branch.
BranchInvariant ==
  repo.pc = "done" /\ repo.ret = "true" =>
    /\ repo.head = "feature"
    /\ IF repo.remote THEN repo.local = "remote" /\ ~repo.dirty
                      ELSE repo.local = "base"

\* C23: two checkoutBranch calls in a row, with no change on origin and
\* possibly an uncommitted local edit in between, both return over a clean
\* working tree, and the tree after the second call equals the tree after
\* the first. Stated for calls in which no git command threw.
ResetIdempotence ==
  repo.pc = "done" /\ repo.ret = "true" /\ ~repo.failed =>
    /\ Clean(repo)
    /\ repo.calls = 2 => <<Tree(repo)>> = repo.first

\* checkout, a new file is created, checkout again: with every git command
\* answering, the second call returns true over a tree that is not clean
UntrackedSurvivesCheckout ==
  /\ repo.pc = "done" /\ repo.ret = "true" /\ ~repo.failed /\ repo.calls = 2
  /\ repo.first = <<[tip |-> repo.local, dirty |-> FALSE, untracked |-> FALSE]>>
  /\ repo.untracked /\ ~repo.dirty

\* ======== SpecThreads: filterRelevantComments / buildConversationThread
MaxComments == 3

\* the reviewer whose comments and "+1" reactions count
TrustedReviewer == "nozcat"

\* process.env.GITHUB_USERNAME of the agent
ourUsername == "adam-bot"

\* author and reactions of a comment, as getPRComments formats them
Profiles ==
  {[user |-> TrustedReviewer, plus |-> {}, eyes |-> {}],
   [user |-> TrustedReviewer, plus |-> {}, eyes |-> {ourUsername}],
   [user |-> "someone", plus |-> {}, eyes |-> {}],
   [user |-> "someone", plus |-> {"someone"}, eyes |-> {}],
   [user |-> "someone", plus |-> {TrustedReviewer}, eyes |-> {"someone"}],
   [user |-> ourUsername, plus |-> {TrustedReviewer, "someone"}, eyes |-> {ourUsername}]}

\* the comment k steps up the reply pointers p from comment i; 0 is "none"
RECURSIVE Ancestor(_, _, _)
Ancestor(p, i, k) ==
  IF k = 0 \/ i = 0 THEN i ELSE Ancestor(p, p[i], k - 1)

\* reply pointers as the hosting platform gives them: no comment is above itself
ReplyForests(n) ==
  {p \in [1..n -> 0..n] : \A i \in 1..n : Ancestor(p, i, n) = 0}

\* a comment array of getPRComments: the comment at position k has id k, so
\* that the reply pointers decide where in the array a parent stands, before
\* or after its replies; in_reply_to_id 0 is null
InitThreads ==
  /\ labels = [i \in Issues |-> {RepoLabel}]
  /\ issueState = [i \in Issues |-> "In Review"]
  /\ blocks = {}
  /\ orgLabels = {RepoLabel}
  /\ edits = 0
  /\ prs = [i \in Issues |-> <<"open">>]
  /\ LockIdle
  /\ AgentIdle
  /\ PollIdle /\ LoopIdle /\ CommitIdle /\ PushIdle
  /\ UpdIdle /\ RepoIdle /\ ConvIdle /\ LookIdle /\ StudyIdle
  /\ \E n \in 0..MaxComments :
       \E prof \in [1..n -> Profiles], p \in ReplyForests(n) :
         thr = [pc |-> "fetched",
                comments |-> [k \in 1..n |->
                               [id |-> k, in_reply_to_id |-> p[k],
                                user |-> prof[k].user,
                                plus |-> prof[k].plus, eyes |-> prof[k].eyes]],
                threads |-> <<>>,   \* what filterRelevantComments returned
                built |-> <<>>]     \* buildConversationThread of each comment

\* allComments.find(c => c.id === id): the first comment with that id, or
\* <<>> for undefined
find(allComments, id) ==
  LET hits == {k \in 1..Len(allComments) : allComments[k].id = id}
  IN  IF hits = {} THEN <<>>
      ELSE <<allComments[CHOOSE k \in hits : \A h \in hits : k <= h]>>

unshift_Push(thread, c) == Append(thread, c)

\* thread.unshift(currentComment)
unshift(thread, c) == <<c>> \o thread

\* the while loop of buildConversationThread, with currentComment and thread
RECURSIVE traceBack(_, _, _)
traceBack(currentComment, allComments, thread) ==
  LET t == unshift(thread, currentComment)
      parent == IF currentComment.in_reply_to_id # 0
                  THEN find(allComments, currentComment.in_reply_to_id)
                  ELSE <<>>
  IN  IF parent = <<>> THEN t ELSE traceBack(parent[1], allComments, t)

buildConversationThread(comment, allComments) ==
  traceBack(comment, allComments, <<>>)

isRelevantComment(c) == c.user = TrustedReviewer \/ TrustedReviewer \in c.plus

hasOurEyes(c) == ourUsername \in c.eyes

hasReplies_Never(c, comments) == FALSE

hasReplies(c, comments) ==
  \E k \in 1..Len(comments) : comments[k].in_reply_to_id = c.id

filterRelevantComments(comments) ==
  LET relevantComments ==
        SelectSeq(comments,
                  LAMBDA c : /\ isRelevantComment(c)
                             /\ ~hasOurEyes(c)
                             /\ ~hasReplies(c, comments))
  IN  [k \in 1..Len(relevantComments) |->
        buildConversationThread(relevantComments[k], comments)]

\* filterRelevantComments is applied to the array
thr_filterRelevantComments ==
  /\ thr.pc = "fetched"
  /\ thr' = [thr EXCEPT !.pc = "filtered",
                        !.threads = filterRelevantComments(thr.comments)]
  /\ UNCHANGED <<coreVars, funVars, studyVars, upd, repo, conv, look>>

\* buildConversationThread is applied to every comment of the array
thr_buildConversationThread ==
  /\ thr.pc = "filtered"
  /\ thr' = [thr EXCEPT !.pc = "built",
                        !.built = [k \in 1..Len(thr.comments) |->
                                    buildConversationThread(thr.comments[k],
                                                            thr.comments)]]
  /\ UNCHANGED <<coreVars, funVars, studyVars, upd, repo, conv, look>>

NextThreads ==
  \/ thr_filterRelevantComments
  \/ thr_buildConversationThread

SpecThreads == InitThreads /\ [][NextThreads]_vars

\* the last comment of a thread
Leaf(thread) == thread[Len(thread)]

\* the comments the contract of filterRelevantComments names: by the trusted
\* reviewer or with a "+1" of the trusted reviewer, without a reply in the
\* array, without an "eyes" reaction of the agent's own user
Triggering(c, comments) ==
  /\ c.user = TrustedReviewer \/ TrustedReviewer \in c.plus
  /\ ~\E k \in 1..Len(comments) : comments[k].in_reply_to_id = c.id
  /\ ourUsername \notin c.eyes

\* C24: filterRelevantComments returns one thread per triggering comment, in
\* array order, each ending with its triggering comment, and no other thread.
OneThreadPerTriggeringLeaf ==
  thr.pc \in {"filtered", "built"} =>
    LET expected == SelectSeq(thr.comments,
                              LAMBDA c : Triggering(c, thr.comments))
    IN  /\ Len(thr.threads) = Len(expected)
        /\ \A k \in 1..Len(expected) : Leaf(thr.threads[k]) = expected[k]

\* a relevant leaf with the agent's own eyes and a relevant comment with a
\* reply are both left out, while another comment gets its thread
ProcessedAndRepliedLeftOut ==
  /\ thr.pc = "filtered" /\ Len(thr.threads) = 1
  /\ \E i, j \in 1..Len(thr.comments) :
       /\ isRelevantComment(thr.comments[i]) /\ hasOurEyes(thr.comments[i])
       /\ ~hasReplies(thr.comments[i], thr.comments)
       /\ isRelevantComment(thr.comments[j]) /\ ~hasOurEyes(thr.comments[j])
       /\ hasReplies(thr.comments[j], thr.comments)

\* the comments are one reply chain: one root, and every comment has at most
\* one reply
IsChain(comments) ==
  /\ Len(comments) > 0
  /\ Cardinality({k \in 1..Len(comments) : comments[k].in_reply_to_id = 0}) = 1
  /\ \A k \in 1..Len(comments) :
       Cardinality({h \in 1..Len(comments) :
                      comments[h].in_reply_to_id = comments[k].id}) <= 1

\* C25: buildConversationThread returns the reply chain from the root to the
\* comment it was given: it begins with a root, each further comment replies
\* to the one before it, and it ends with the given comment; for comments that
\* form one chain, in any array order, the thread of the leaf is the whole chain.
ThreadRootToLeaf ==
  thr.pc = "built" =>
    \A k \in 1..Len(thr.comments) :
      LET t == thr.built[k]
      IN  /\ Len(t) >= 1
          /\ t[1].in_reply_to_id = 0
          /\ Leaf(t) = thr.comments[k]
          /\ \A h \in 1..(Len(t) - 1) : t[h + 1].in_reply_to_id = t[h].id
          /\ IsChain(thr.comments) /\ ~hasReplies(thr.comments[k], thr.comments)
               => Len(t) = Len(thr.comments)

\* a chain whose root stands last in the array and whose leaf stands first
ChainInReverseArrayOrder ==
  /\ thr.pc = "built" /\ Len(thr.comments) = MaxComments
  /\ IsChain(thr.comments)
  /\ thr.comments[MaxComments].in_reply_to_id = 0
  /\ ~hasReplies(thr.comments[1], thr.comments)
  /\ Len(thr.built[1]) = MaxComments

\* ======== SpecConv: processConversationThreads / respondToConversationThread
MaxThreads == 2

\* nothing has happened yet for a thread
NoEvents ==
  [reactions |-> 0,      \* addCommentReaction calls on the leaf
   reacted |-> FALSE,    \* the reaction call came before any assistant call
   claude |-> 0,         \* callClaude calls
   commit |-> "none",    \* what ensureChangesCommitted returned
   comment |-> "none",   \* "posted" or "null": what the reply post returned
   pushes |-> 0,         \* pushBranchAndMergeIfNecessary calls
   failure |-> "none"]   \* what went wrong for the thread

\* the conversation threads of one PR, each with the type of its leaf comment
InitConv ==
  /\ labels = [i \in Issues |-> {RepoLabel}]
  /\ issueState = [i \in Issues |-> "In Review"]
  /\ blocks = {}
  /\ orgLabels = {RepoLabel}
  /\ edits = 0
  /\ prs = [i \in Issues |-> <<"open">>]
  /\ LockIdle
  /\ AgentIdle
  /\ PollIdle /\ LoopIdle /\ CommitIdle /\ PushIdle
  /\ UpdIdle /\ RepoIdle /\ ThrIdle /\ LookIdle /\ StudyIdle
  /\ \E n \in 0..MaxThreads :
       \E types \in [1..n -> {"review", "issue"}] :
         conv = [pc |-> "loop", i |-> 1, types |-> types,
                 events |-> [k \in 1..n |-> NoEvents]]

startThread_NoReaction(c) == [c EXCEPT !.pc = "claude"]

\* the body of the for loop begins: the reaction is the first call
startThread(c) == [c EXCEPT !.pc = "react"]

afterThread_Abort(c) == [c EXCEPT !.pc = "done"]

\* the body of the for loop is over, by its end or through the catch block:
\* i++ and the loop test
afterThread(c) == [c EXCEPT !.i = c.i + 1, !.pc = "loop"]

\* for (let i = 0; i < conversationThreads.length; i++)
processConversationThreads_loop ==
  /\ conv.pc = "loop"
  /\ conv' = IF conv.i <= Len(conv.types)
               THEN startThread(conv)
               ELSE [conv EXCEPT !.pc = "done"]
  /\ UNCHANGED <<coreVars, funVars, studyVars, upd, repo, thr, look>>

\* await addCommentReaction(lastComment.id, lastComment.type, 'eyes', ...):
\* it returns true or false and the result is dropped
processConversationThreads_react(ok) ==
  /\ conv.pc = "react"
  /\ conv' = [conv EXCEPT !.pc = "claude",
                !.events[conv.i].reactions = @ + 1,
                !.events[conv.i].reacted = (conv.events[conv.i].claude = 0),
                !.events[conv.i].failure = IF ok THEN @ ELSE "reaction"]
  /\ UNCHANGED <<coreVars, funVars, studyVars, upd, repo, thr, look>>

\* callClaude inside the try block: a response, a falsy value, or a throw
processConversationThreads_callClaude(o) ==
  /\ conv.pc = "claude"
  /\ LET c == [conv EXCEPT !.events[conv.i].claude = @ + 1]
     IN  conv' = CASE o = "response" -> [c EXCEPT !.pc = "commit"]
                   [] o = "empty" ->
                        afterThread([c EXCEPT !.events[conv.i].failure = "empty"])
                   [] o = "throw" ->
                        afterThread([c EXCEPT !.events[conv.i].failure = "assistant"])
  /\ UNCHANGED <<coreVars, funVars, studyVars, upd, repo, thr, look>>

\* ensureChangesCommitted: false is only logged, a throw reaches the catch block
processConversationThreads_ensureChangesCommitted(o) ==
  /\ conv.pc = "commit"
  /\ conv' = CASE o = "true" -> [conv EXCEPT !.pc = "respond",
                                   !.events[conv.i].commit = "true"]
               [] o = "false" -> [conv EXCEPT !.pc = "respond",
                                    !.events[conv.i].commit = "false",
                                    !.events[conv.i].failure = "commit"]
               [] o = "throw" ->
                    afterThread([conv EXCEPT !.events[conv.i].failure = "commit"])
  /\ UNCHANGED <<coreVars, funVars, studyVars, upd, repo, thr, look>>

PushAfterReply_Always(comment) == TRUE

\* if (comment)
PushAfterReply(comment) == comment = "posted"

\* respondToConversationThread up to the test of the posted comment:
\* postReviewCommentReply for a review comment, postPRComment otherwise; both
\* return the created comment or null
respondToConversationThread_post(posted) ==
  /\ conv.pc = "respond"
  /\ LET comment == IF posted THEN "posted" ELSE "null"
         c == [conv EXCEPT !.events[conv.i].comment = comment]
     IN  conv' = IF PushAfterReply(comment)
                   THEN [c EXCEPT !.pc = "push"]
                   ELSE afterThread([c EXCEPT !.events[conv.i].failure = "post"])
  /\ UNCHANGED <<coreVars, funVars, studyVars, upd, repo, thr, look>>

\* pushBranchAndMergeIfNecessary: its result is only logged
respondToConversationThread_push(ok) ==
  /\ conv.pc = "push"
  /\ conv' = afterThread([conv EXCEPT !.events[conv.i].pushes = @ + 1,
                            !.events[conv.i].failure = IF ok THEN @ ELSE "push"])
  /\ UNCHANGED <<coreVars, funVars, studyVars, upd, repo, thr, look>>

NextConv ==
  \/ processConversationThreads_loop
  \/ \E ok \in BOOLEAN : processConversationThreads_react(ok)
  \/ \E o \in {"response", "empty", "throw"} :
       processConversationThreads_callClaude(o)
  \/ \E o \in {"true", "false", "throw"} :
       processConversationThreads_ensureChangesCommitted(o)
  \/ \E posted \in BOOLEAN : respondToConversationThread_post(posted)
  \/ \E ok \in BOOLEAN : respondToConversationThread_push(ok)

SpecConv == InitConv /\ [][NextConv]_vars

\* C26: the assistant is invoked for a thread only after the "eyes" reaction
\* call on the thread's leaf comment was made for that thread.
ReactionBeforeAssistant ==
  \A k \in 1..Len(conv.types) :
    conv.events[k].claude > 0 =>
      conv.events[k].reactions = 1 /\ conv.events[k].reacted

\* the assistant has run for a thread whose leaf already got the reaction call
AssistantAfterReaction ==
  \E k \in 1..Len(conv.types) :
    conv.events[k].claude = 1 /\ conv.events[k].reacted

\* C27: when processConversationThreads ends, every thread of the PR got its
\* reaction call and its assistant invocation, whatever failed for the threads
\* before it; before the end, every thread before the current one got them.
EveryThreadProcessed ==
  \A k \in 1..Len(conv.types) :
    (conv.pc = "done" \/ k < conv.i) =>
      conv.events[k].reactions = 1 /\ conv.events[k].claude = 1

\* the first thread failed and the second one was still answered and pushed
SecondThreadAfterFailure ==
  /\ conv.pc = "done" /\ Len(conv.types) = MaxThreads
  /\ conv.events[1].failure \in {"assistant", "empty", "commit", "post", "push"}
  /\ conv.events[MaxThreads].comment = "posted"
  /\ conv.events[MaxThreads].pushes = 1

\* C28: pushBranchAndMergeIfNecessary is invoked once for a thread whose reply
\* was posted and never for a thread whose reply post failed or was not made.
PushOncePerPostedReply ==
  \A k \in 1..Len(conv.types) :
    /\ conv.events[k].pushes <= 1
    /\ conv.events[k].pushes = 1 => conv.events[k].comment = "posted"
    /\ (conv.pc = "done" \/ k < conv.i) /\ conv.events[k].comment = "posted"
         => conv.events[k].pushes = 1

\* one thread's reply was posted and pushed, another's post failed without push
PostedPushedFailedNot ==
  /\ conv.pc = "done"
  /\ \E k, h \in 1..Len(conv.types) :
       /\ conv.events[k].comment = "posted" /\ conv.events[k].pushes = 1
       /\ conv.events[h].comment = "null" /\ conv.events[h].pushes = 0

\* ======== SpecLookup: processIssue from the PR lookup on
\* the pull requests of a head branch, oldest first
PRLists ==
  UNION {[1..n -> {"open", "closed", "merged"}] : n \in 0..MaxPRs}

\* one processIssue call that passed the checkout, on a polled issue
InitLookup ==
  /\ labels = [i \in Issues |-> {RepoLabel}]
  /\ issueState = [i \in Issues |-> "Todo"]
  /\ blocks = {}
  /\ orgLabels = {RepoLabel}
  /\ edits = 0
  /\ prs = [i \in Issues |-> <<>>]
  /\ LockIdle
  /\ AgentIdle
  /\ PollIdle /\ LoopIdle /\ CommitIdle /\ PushIdle
  /\ UpdIdle /\ RepoIdle /\ ThrIdle /\ ConvIdle /\ StudyIdle
  /\ \E list \in PRLists, state \in Workable :
       look = [pc |-> "findpr",
               list |-> list,           \* the pull requests of the branch
               state |-> state,         \* the issue's state in the tracker
               lookup |-> "none",       \* "answered" or "failed"
               stateUpdates |-> 0,      \* issue.update calls that went through
               claude |-> 0,            \* callClaude calls
               createPR |-> 0,          \* createPR calls
               ret |-> "none"]          \* what processIssue returned

lookReturn(l, v) == [l EXCEPT !.pc = "returned", !.ret = v]

\* findExistingPR and the branch on its result
lookup_findExistingPR(ok) ==
  /\ look.pc = "findpr"
  /\ LET existingPR == findExistingPR(look.list, ok)
         l == [look EXCEPT !.lookup = IF ok THEN "answered" ELSE "failed"]
     IN  look' = CASE existingPR = "merged" -> lookReturn(l, "false")
                   [] existingPR = "open" -> [l EXCEPT !.pc = "existing"]
                   [] OTHER -> [l EXCEPT !.pc = "update"]
  /\ UNCHANGED <<coreVars, funVars, studyVars, upd, repo, thr, conv>>

\* processExistingPR: true when conversation threads were processed
lookup_processExistingPR(fw) ==
  /\ look.pc = "existing"
  /\ look' = lookReturn(look, IF fw THEN "true" ELSE "false")
  /\ UNCHANGED <<coreVars, funVars, studyVars, upd, repo, thr, conv>>

\* updateIssueToInProgress and `if (!updateSuccess) return false`
lookup_updateIssueToInProgress(ok) ==
  /\ look.pc = "update"
  /\ look' = IF ~NeedsUpdate(look.state) THEN [look EXCEPT !.pc = "recheck"]
             ELSE IF ok THEN [look EXCEPT !.pc = "recheck",
                                          !.state = "In Progress",
                                          !.stateUpdates = @ + 1]
             ELSE lookReturn(look, "false")
  /\ UNCHANGED <<coreVars, funVars, studyVars, upd, repo, thr, conv>>

\* checkIssueStatus before implementing: the re-fetched state, which a
\* tracker user may have set to Done meanwhile, or "null"
lookup_recheck ==
  /\ look.pc = "recheck"
  /\ \E state \in {look.state, "Done", "null"} :
       look' = IF MayImplement(state) THEN [look EXCEPT !.pc = "implement"]
                                      ELSE lookReturn(look, "false")
  /\ UNCHANGED <<coreVars, funVars, studyVars, upd, repo, thr, conv>>

\* callClaude(prompt): a result or no result
lookup_callClaude(success) ==
  /\ look.pc = "implement"
  /\ look' = IF success THEN [look EXCEPT !.pc = "final", !.claude = @ + 1]
                        ELSE lookReturn([look EXCEPT !.claude = @ + 1], "true")
  /\ UNCHANGED <<coreVars, funVars, studyVars, upd, repo, thr, conv>>

\* checkIssueStatus before creating the PR
lookup_finalCheck ==
  /\ look.pc = "final"
  /\ \E state \in {look.state, "Done", "null"} :
       look' = IF StopsBeforePR(state) THEN lookReturn(look, "true")
                                       ELSE [look EXCEPT !.pc = "createpr"]
  /\ UNCHANGED <<coreVars, funVars, studyVars, upd, repo, thr, conv>>

\* createPR; the platform refuses a second open pull request for the branch
lookup_createPR(ok) ==
  /\ look.pc = "createpr"
  /\ look' = lookReturn([look EXCEPT
                 !.createPR = @ + 1,
                 !.list = IF ok /\ ~HasOpen(look.list) THEN Append(@, "open")
                                                       ELSE @],
               "true")
  /\ UNCHANGED <<coreVars, funVars, studyVars, upd, repo, thr, conv>>

NextLookup ==
  \/ \E ok \in BOOLEAN : lookup_findExistingPR(ok)
  \/ \E fw \in BOOLEAN : lookup_processExistingPR(fw)
  \/ \E ok \in BOOLEAN : lookup_updateIssueToInProgress(ok)
  \/ lookup_recheck
  \/ \E success \in BOOLEAN : lookup_callClaude(success)
  \/ lookup_finalCheck
  \/ \E ok \in BOOLEAN : lookup_createPR(ok)

SpecLookup == InitLookup /\ [][NextLookup]_vars

\* C29: when the hosting API failed during findExistingPR, processIssue makes
\* no progress on the issue: no state update, no assistant invocation and no
\* createPR call.
FailedLookupNoProgress ==
  look.lookup = "failed" =>
    look.stateUpdates = 0 /\ look.claude = 0 /\ look.createPR = 0

\* a failed lookup on a branch with an open pull request was followed by a
\* state update, an assistant run and a createPR call
FailedLookupFullRun ==
  /\ look.lookup = "failed" /\ HasOpen(look.list)
  /\ look.stateUpdates = 1 /\ look.claude = 1 /\ look.createPR = 1

NoRepositorySkipped ==
  \E a \in Agents :
    pc[a] = "pa_next" /\ ~foundWork[a] /\ ~cur[a].repository

\* ======== claims on SpecLock: what a failed lockIssue leaves behind
\* C33: whenever lockIssue has returned false, through a return statement or
\* through its catch block, the caller's own agent label is not attached to
\* the issue.
FailedLockLeavesNoLabel ==
  \A a \in Agents :
    (lpc[a] = "idle" /\ lockRet[a] \in {"false", "error"})
      => getAgentLabelName(a) \notin labels[ltarget[a]]

\* lockIssue returned false from its catch block with the caller's label on
\* the issue, and no agent holds the lock
OrphanLabel ==
  \E a \in Agents :
    /\ lpc[a] = "idle" /\ lockRet[a] = "error"
    /\ getAgentLabelName(a) \in labels[ltarget[a]]
    /\ \A b \in Agents : held[b] = {}

\* ======== SpecClone: ensureRepositoryExists
MaxEnsureCalls == 4

\* the tracker, the platform and the agents of the other specifications rest
WorldIdle ==
  /\ labels = [i \in Issues |-> {RepoLabel}]
  /\ issueState = [i \in Issues |-> "Todo"]
  /\ blocks = {}
  /\ orgLabels = {RepoLabel}
  /\ edits = 0
  /\ prs = [i \in Issues |-> <<>>]
  /\ LockIdle
  /\ AgentIdle
  /\ PollIdle /\ LoopIdle /\ CommitIdle /\ PushIdle

\* no clone directory yet; GITHUB_USERNAME, GITHUB_EMAIL and GITHUB_TOKEN are
\* all set or not
InitClone ==
  /\ WorldIdle
  /\ OnlyClone
  /\ \E credentials \in BOOLEAN :
       clone = [pc |-> "ready",
                credentials |-> credentials,
                dir |-> FALSE,        \* fs.existsSync(repoPath)
                name |-> FALSE,       \* user.name is set in the clone
                email |-> FALSE,      \* user.email is set in the clone
                rets |-> <<>>]        \* what the calls returned, oldest first

ensureReturn(c, v) == [c EXCEPT !.pc = "ready", !.rets = Append(@, v)]

\* if (fs.existsSync(repoPath)) return true
PathCheck(c) == c.dir

\* ensureRepositoryExists up to the credentials test; repoInfo is null for an
\* issue without a repository
ensureRepositoryExists(repoInfo) ==
  /\ clone.pc = "ready"
  /\ Len(clone.rets) < MaxEnsureCalls
  /\ clone' = IF ~repoInfo THEN ensureReturn(clone, FALSE)
              ELSE IF PathCheck(clone) THEN ensureReturn(clone, TRUE)
              ELSE IF ~clone.credentials THEN ensureReturn(clone, FALSE)
              ELSE [clone EXCEPT !.pc = "clone"]
  /\ UNCHANGED cloneFrame

\* git.clone(repoUrl, repoPath): a failed clone removes what it created
ensureRepositoryExists_clone(ok) ==
  /\ clone.pc = "clone"
  /\ clone' = IF ok THEN [clone EXCEPT !.pc = "name", !.dir = TRUE]
                    ELSE ensureReturn(clone, FALSE)
  /\ UNCHANGED cloneFrame

\* repoGit.addConfig('user.name', username)
ensureRepositoryExists_userName(ok) ==
  /\ clone.pc = "name"
  /\ clone' = IF ok THEN [clone EXCEPT !.pc = "email", !.name = TRUE]
                    ELSE ensureReturn(clone, FALSE)
  /\ UNCHANGED cloneFrame

\* repoGit.addConfig('user.email', email) and return true
ensureRepositoryExists_userEmail(ok) ==
  /\ clone.pc = "email"
  /\ clone' = IF ok THEN ensureReturn([clone EXCEPT !.email = TRUE], TRUE)
                    ELSE ensureReturn(clone, FALSE)
  /\ UNCHANGED cloneFrame

\* the environment of the agent process is completed or changed between calls
setCredentials(c) ==
  /\ clone.pc = "ready"
  /\ clone.credentials # c
  /\ clone.rets # <<>> /\ Len(clone.rets) < MaxEnsureCalls
  /\ clone' = [clone EXCEPT !.credentials = c]
  /\ UNCHANGED cloneFrame

NextClone ==
  \/ \E repoInfo \in BOOLEAN : ensureRepositoryExists(repoInfo)
  \/ \E ok \in BOOLEAN : ensureRepositoryExists_clone(ok)
  \/ \E ok \in BOOLEAN : ensureRepositoryExists_userName(ok)
  \/ \E ok \in BOOLEAN : ensureRepositoryExists_userEmail(ok)
  \/ \E c \in BOOLEAN : setCredentials(c)

SpecClone == InitClone /\ [][NextClone]_vars

\* C31: whenever ensureRepositoryExists has returned true, the clone exists
\* and has user.name and user.email configured.
CloneInvariant ==
  (clone.pc = "ready" /\ clone.rets # <<>> /\ clone.rets[Len(clone.rets)])
    => clone.dir /\ clone.name /\ clone.email

\* a call returned false after the clone was made, and the next call returned
\* true on the clone without identity
TrueWithoutIdentity ==
  /\ clone.pc = "ready" /\ Len(clone.rets) >= 2
  /\ ~clone.rets[Len(clone.rets) - 1] /\ clone.rets[Len(clone.rets)]
  /\ clone.dir /\ ~clone.name

\* ======== SpecResolve: getRepositoryFromIssue / extractRepositoryFromLabel
MaxLabels == 2

\* label names as a prefix and the characters after it
LabelNames ==
  {[prefix |-> "repo:", rest |-> <<"a", "/", "b">>],
   [prefix |-> "repo:", rest |-> <<"b", "/", "a", "/", "c">>],
   [prefix |-> "repo:", rest |-> <<"/", "b">>],
   [prefix |-> "repo:", rest |-> <<"a", "/">>],
   [prefix |-> "repo:", rest |-> <<"a", "b">>],
   [prefix |-> "agent:", rest |-> <<"a", "/", "b">>]}

LabelLists == UNION {[1..n -> LabelNames] : n \in 0..MaxLabels}

\* how a labels() read ends: the nodes, an answer without nodes, a throw
Reads == {"nodes", "empty", "throws"}

\* an issue with its labels, its project (none, or one with labels) and the
\* outcome of the two label reads
InitResolve ==
  /\ WorldIdle
  /\ OnlyResolve
  /\ \E issueLabels \in LabelLists, project \in BOOLEAN,
        projectLabels \in LabelLists, r1 \in Reads, r2 \in Reads :
       /\ ~project => projectLabels = <<>> /\ r2 = "nodes"
       /\ resolve = [pc |-> "called",
                     issueLabels |-> issueLabels,
                     project |-> project,
                     projectLabels |-> projectLabels,
                     issueRead |-> r1,
                     projectRead |-> r2,
                     repository |-> <<>>]  \* <<>> is null

\* the position of the first "/" of s from position k on, 0 if there is none
RECURSIVE firstSlash(_, _)
firstSlash(s, k) ==
  IF k > Len(s) THEN 0 ELSE IF s[k] = "/" THEN k ELSE firstSlash(s, k + 1)

\* labelName.match(/^repo:([^/]+)\/(.+)$/): [^/]+ ends at the first "/", and
\* both groups are non-empty; <<>> is null
extractRepositoryFromLabel(labelName) ==
  LET k == firstSlash(labelName.rest, 1)
  IN  IF labelName.prefix = "repo:" /\ k > 1 /\ k < Len(labelName.rest)
        THEN <<[owner |-> SubSeq(labelName.rest, 1, k - 1),
                name |-> SubSeq(labelName.rest, k + 1, Len(labelName.rest))]>>
        ELSE <<>>

\* for (const label of nodes): the repository of the first label that has one
RECURSIVE firstRepository(_, _)
firstRepository(nodes, k) ==
  IF k > Len(nodes) THEN <<>>
  ELSE IF extractRepositoryFromLabel(nodes[k]) # <<>>
         THEN extractRepositoryFromLabel(nodes[k])
  ELSE firstRepository(nodes, k + 1)

issueThenProject_ProjectWins(fromIssue, fromProject) ==
  IF fromProject # <<>> THEN fromProject ELSE fromIssue

\* the issue's labels are searched first and a hit returns at once
issueThenProject(fromIssue, fromProject) ==
  IF fromIssue # <<>> THEN fromIssue ELSE fromProject

\* getRepositoryFromIssue with its reads: a throw of either read is caught and gives null; the
\* project is read only when the issue's labels gave nothing
resolveRepository(r) ==
  LET fromIssue == IF r.issueRead = "nodes"
                     THEN firstRepository(r.issueLabels, 1) ELSE <<>>
      fromProject == IF r.project /\ r.projectRead = "nodes"
                       THEN firstRepository(r.projectLabels, 1) ELSE <<>>
  IN  IF r.issueRead = "throws" THEN <<>>
      ELSE IF fromIssue = <<>> /\ r.project /\ r.projectRead = "throws" THEN <<>>
      ELSE issueThenProject(fromIssue, fromProject)

resolve_getRepositoryFromIssue ==
  /\ resolve.pc = "called"
  /\ resolve' = [resolve EXCEPT !.pc = "returned",
                                !.repository = resolveRepository(resolve)]
  /\ UNCHANGED resolveFrame

NextResolve == resolve_getRepositoryFromIssue

SpecResolve == InitResolve /\ [][NextResolve]_vars

\* the label name is repo:<owner>/<name> for this owner and name
NamesRepository(labelName, repository) ==
  /\ labelName.prefix = "repo:"
  /\ labelName.rest = repository.owner \o <<"/">> \o repository.name
  /\ repository.owner # <<>> /\ repository.name # <<>>
  /\ \A k \in 1..Len(repository.owner) : repository.owner[k] # "/"

\* the label name matches repo:<owner>/<name>
IsRepoLabel(labelName) ==
  \E k \in 1..Len(labelName.rest) :
    NamesRepository(labelName,
                    [owner |-> SubSeq(labelName.rest, 1, k - 1),
                     name |-> SubSeq(labelName.rest, k + 1, Len(labelName.rest))])

HasRepoLabel(nodes) == \E k \in 1..Len(nodes) : IsRepoLabel(nodes[k])

\* C32: when the reads answer, the repository is the one named by the first
\* repo:<owner>/<name> label of the issue; if the issue has none, by the first
\* such label of the issue's project; with no such label, or when a read that
\* is made throws, the result is null.
RepositoryResolution ==
  resolve.pc = "returned" =>
    LET own == resolve.issueRead = "nodes" /\ HasRepoLabel(resolve.issueLabels)
        proj == /\ resolve.project /\ resolve.projectRead = "nodes"
                /\ HasRepoLabel(resolve.projectLabels)
        result == resolve.repository
        From(nodes) ==
          /\ result # <<>>
          /\ \E k \in 1..Len(nodes) :
               /\ NamesRepository(nodes[k], result[1])
               /\ \A h \in 1..(k - 1) : ~IsRepoLabel(nodes[h])
    IN  /\ own => From(resolve.issueLabels)
        /\ (~own /\ resolve.issueRead # "throws" /\ proj)
             => From(resolve.projectLabels)
        /\ (resolve.issueRead = "throws" \/ (~own /\ ~proj)) => result = <<>>

\* issue and project name different repositories and the issue's one is taken
IssueLabelWins ==
  /\ resolve.pc = "returned"
  /\ resolve.issueRead = "nodes" /\ resolve.projectRead = "nodes"
  /\ HasRepoLabel(resolve.issueLabels) /\ HasRepoLabel(resolve.projectLabels)
  /\ firstRepository(resolve.issueLabels, 1)
       # firstRepository(resolve.projectLabels, 1)
  /\ resolve.repository = firstRepository(resolve.issueLabels, 1)

\* ======== SpecRelock: the lockIssue of src/linear.js that rewrites the label set
\* two agents call lockIssue for the same issue, which has a repository label
InitRelock ==
  /\ WorldIdle
  /\ OnlyRelock
  /\ relock = [labels |-> {RepoLabel},                  \* labels on the issue
               pc |-> [a \in Agents |-> "start"],
               read |-> [a \in Agents |-> {}],          \* labels read for a rewrite
               ret |-> [a \in Agents |-> "none"]]       \* lockIssue's return

relockReturn(r, a, v) == [r EXCEPT !.pc[a] = "returned", !.ret[a] = v]

\* checkForExistingAgentLabels(issue) and the test of its result;
\* a failed read counts as no labels
relock_check(a, ok) ==
  /\ relock.pc[a] = "start"
  /\ LET existingAgentLabels ==
           IF ok THEN checkForExistingAgentLabels(relock.labels) ELSE {}
     IN  relock' = IF existingAgentLabels # {}
                     THEN relockReturn(relock, a, "false")
                     ELSE [relock EXCEPT !.pc[a] = "find"]
  /\ UNCHANGED relockFrame

\* findOrCreateLabel(labelName): the label id, or null
relock_findOrCreateLabel(a, ok) ==
  /\ relock.pc[a] = "find"
  /\ relock' = IF ok THEN [relock EXCEPT !.pc[a] = "ids"]
                     ELSE relockReturn(relock, a, "false")
  /\ UNCHANGED relockFrame

\* getLabelIds(issue, [labelId]): the labels read now plus the new one; on a
\* failed read only the new one
getLabelIds(nodes, ok, additional) ==
  IF ok THEN nodes \cup additional ELSE additional

relock_getLabelIds(a, ok) ==
  /\ relock.pc[a] = "ids"
  /\ relock' = [relock EXCEPT
                  !.pc[a] = "update",
                  !.read[a] = getLabelIds(relock.labels, ok, {getAgentLabelName(a)})]
  /\ UNCHANGED relockFrame

\* linearClient.updateIssue(issue.id, { labelIds }): the label set is replaced
relock_updateIssue(a, ok) ==
  /\ relock.pc[a] = "update"
  /\ relock' = IF ok THEN [relock EXCEPT !.pc[a] = "race",
                                          !.labels = relock.read[a]]
                     ELSE relockReturn(relock, a, "false")
  /\ UNCHANGED relockFrame

\* checkForRaceCondition: more than one agent label, one of them not ours;
\* false on a failed read
checkForRaceCondition(nodes, a, ok) ==
  LET agentLabels == {n \in nodes : startsWithAgent(n)}
  IN  /\ ok
      /\ Cardinality(agentLabels) > 1
      /\ \E n \in agentLabels : n # getAgentLabelName(a)

relock_checkForRaceCondition(a, ok) ==
  /\ relock.pc[a] = "race"
  /\ relock' = IF checkForRaceCondition(relock.labels, a, ok)
                 THEN [relock EXCEPT !.pc[a] = "unlock"]
                 ELSE relockReturn(relock, a, "true")
  /\ UNCHANGED relockFrame

\* unlockIssue in the race path, its read: the labels without ours; a failed
\* read makes unlockIssue return false, and lockIssue returns false
relock_unlockRead(a, ok) ==
  /\ relock.pc[a] = "unlock"
  /\ relock' = IF ok THEN [relock EXCEPT
                             !.pc[a] = "unlockUpdate",
                             !.read[a] = relock.labels \ {getAgentLabelName(a)}]
                     ELSE relockReturn(relock, a, "false")
  /\ UNCHANGED relockFrame

\* unlockIssue's updateIssue with the remaining labels; lockIssue returns
\* false whatever unlockIssue returned
relock_unlockUpdate(a, ok) ==
  /\ relock.pc[a] = "unlockUpdate"
  /\ relock' = relockReturn(IF ok THEN [relock EXCEPT !.labels = relock.read[a]]
                                  ELSE relock,
                            a, "false")
  /\ UNCHANGED relockFrame

NextRelock ==
  \/ \E a \in Agents, ok \in BOOLEAN : relock_check(a, ok)
  \/ \E a \in Agents, ok \in BOOLEAN : relock_findOrCreateLabel(a, ok)
  \/ \E a \in Agents, ok \in BOOLEAN : relock_getLabelIds(a, ok)
  \/ \E a \in Agents, ok \in BOOLEAN : relock_updateIssue(a, ok)
  \/ \E a \in Agents, ok \in BOOLEAN : relock_checkForRaceCondition(a, ok)
  \/ \E a \in Agents, ok \in BOOLEAN : relock_unlockRead(a, ok)
  \/ \E a \in Agents, ok \in BOOLEAN : relock_unlockUpdate(a, ok)

SpecRelock == InitRelock /\ [][NextRelock]_vars

\* C34: in the rewriting lockIssue, a call that returns true does so with the
\* caller's label attached to the issue, and no two agents' calls on the same
\* issue both return true.
RewriteLockExclusion ==
  /\ [][\A a \in Agents :
          (relock.ret[a] # "true" /\ relock'.ret[a] = "true")
            => getAgentLabelName(a) \in relock'.labels]_vars
  /\ [](\A a, b \in Agents :
          (a # b /\ relock.ret[a] = "true") => relock.ret[b] # "true")

\* both calls returned true although every API call answered: the later
\* rewrite replaced the earlier agent's label
BothLockedOneLabel ==
  /\ \A a \in Agents : relock.ret[a] = "true"
  /\ Cardinality({n \in relock.labels : startsWithAgent(n)}) = 1

\* a rewrite after a failed read took the repository label off the issue
RepositoryLabelWiped ==
  RepoLabel \notin relock.labels

\* ======== SpecReview: one relevant leaf comment over the agents' poll cycles
MaxCycles == 2

\* the GITHUB_USERNAME values of the agents: one shared account, or one each
Usernames ==
  {[a \in Agents |-> ourUsername],
   [a \in Agents |-> <<ourUsername, a>>]}

\* a pull request with one relevant leaf comment without reactions; the
\* reviewer adds neither a reply nor a reaction
InitReview ==
  /\ WorldIdle
  /\ OnlyReview
  /\ \E users \in Usernames :
       review = [users |-> users,
                 eyes |-> {},                          \* users with an eyes reaction
                 pc |-> [a \in Agents |-> "poll"],
                 cycles |-> [a \in Agents |-> 0],      \* processExistingPR calls
                 invocations |-> 0]                    \* callClaude calls for the leaf

\* the eyes test of filterRelevantComments on the reactions that were fetched
alreadyProcessed(eyes, username) == username \in eyes

\* processExistingPR up to the loop of processConversationThreads:
\* getPRComments returns the comments with their reactions, or with {} for the
\* reactions when getDetailedReactions failed, or null; filterRelevantComments
\* keeps the leaf unless the agent's own eyes reaction is on it
review_processExistingPR(a, o) ==
  /\ review.pc[a] = "poll"
  /\ review.cycles[a] < MaxCycles
  /\ LET fetchedEyes == IF o = "comments" THEN review.eyes ELSE {}
         threads == o # "null" /\ ~alreadyProcessed(fetchedEyes, review.users[a])
     IN  review' = [review EXCEPT !.cycles[a] = @ + 1,
                                  !.pc[a] = IF threads THEN "react" ELSE "poll"]
  /\ UNCHANGED reviewFrame

\* addCommentReaction(lastComment.id, lastComment.type, 'eyes', ...): its
\* result is not looked at
review_addCommentReaction(a, ok) ==
  /\ review.pc[a] = "react"
  /\ review' = [review EXCEPT !.pc[a] = "claude",
                              !.eyes = IF ok THEN @ \cup {review.users[a]} ELSE @]
  /\ UNCHANGED reviewFrame

\* callClaude for the thread; the rest of the iteration adds no reaction
review_callClaude(a) ==
  /\ review.pc[a] = "claude"
  /\ review' = [review EXCEPT !.pc[a] = "poll", !.invocations = @ + 1]
  /\ UNCHANGED reviewFrame

NextReview ==
  \/ \E a \in Agents, o \in {"comments", "noreactions", "null"} :
       review_processExistingPR(a, o)
  \/ \E a \in Agents, ok \in BOOLEAN : review_addCommentReaction(a, ok)
  \/ \E a \in Agents : review_callClaude(a)

SpecReview == InitReview /\ [][NextReview]_vars

\* C35: the assistant is invoked at most once in total for a relevant leaf
\* comment that gets no new reply or reaction of the reviewer.
LeafTriggersOnce ==
  review.invocations <= 1

\* one agent alone invoked the assistant twice for the leaf: its reaction
\* call had failed
SameAgentTwice ==
  /\ review.invocations = 2
  /\ \E a \in Agents : review.cycles[a] = 2 /\ review.eyes = {}
  /\ \E b \in Agents : review.cycles[b] = 0

\* two agents that share the account both invoked the assistant although
\* every API call answered
TwoAgentsOnce ==
  /\ review.invocations = 2
  /\ \A a \in Agents : review.cycles[a] = 1 /\ review.users[a] = ourUsername
  /\ review.eyes = {ourUsername}

\* ======== SpecStale: an issue that carries the label of a stopped agent
\* Issue 1 is workable and carries the agent label of a process that is gone
\* (it crashed, or it was restarted and generateAgentId gave it a new id).
\* The live agents poll, sleep, and call lockIssue and unlockIssue.
InitStale ==
  /\ labels = [i \in Issues |-> IF i \in LockIssues THEN {RepoLabel, StaleLabel}
                                                    ELSE {RepoLabel}]
  /\ orgLabels = {RepoLabel, StaleLabel}
  /\ issueState = [i \in Issues |-> "Todo"]
  /\ blocks = {}
  /\ edits = 0
  /\ prs = [i \in Issues |-> <<>>]
  /\ LockIdle
  /\ AgentIdle
  /\ PollIdle /\ LoopIdle /\ CommitIdle /\ PushIdle
  /\ OnlyStale
  /\ stale = [pc |-> [a \in Agents |-> "sleep"],
              result |-> [a \in Agents |-> {}]]   \* ids of the last poll result

\* pollLinear of a live agent; unreadable are the issues whose label read
\* throws inside isIssueLockedByAnotherAgent
stale_pollLinear(a, unreadable) ==
  /\ stale.pc[a] = "sleep"
  /\ lpc[a] = "idle"
  /\ LET issues == pollLinear(a, TRUE, {}, unreadable)
     IN  stale' = [stale EXCEPT
                     !.pc[a] = "polled",
                     !.result[a] = {issues[k].id : k \in 1..Len(issues)}]
  /\ UNCHANGED staleFrame

\* the rest of the cycle and the sleep of runAdam
stale_sleep(a) ==
  /\ stale.pc[a] = "polled"
  /\ stale' = [stale EXCEPT !.pc[a] = "sleep"]
  /\ UNCHANGED staleFrame

NextStale ==
  \/ \E a \in Agents, unreadable \in SUBSET LockIssues :
       stale_pollLinear(a, unreadable)
  \/ \E a \in Agents : stale_sleep(a)
  \/ \E a \in Agents, i \in LockIssues : lockIssue(a, i)
  \/ \E a \in Agents : findOrCreateLabel(a)
  \/ \E a \in Agents : lockIssue_check(a)
  \/ \E a \in Agents : lockIssue_add(a)
  \/ \E a \in Agents : lockIssue_reread(a)
  \/ \E a \in Agents : lockIssue_remove(a)
  \/ \E a \in Agents, i \in LockIssues : unlockIssue(a, i)
  \/ \E a \in Agents : unlockIssue_read(a)
  \/ \E a \in Agents : unlockIssue_absent(a)
  \/ \E a \in Agents : unlockIssue_remove(a)

SpecStale == InitStale /\ [][NextStale]_vars

\* every live agent goes on polling, with reads that answer, and sleeping
SpecStaleFair ==
  /\ SpecStale
  /\ \A a \in Agents : WF_vars(stale_pollLinear(a, {}))
  /\ \A a \in Agents : WF_vars(stale_sleep(a))

StaleLabelStays ==
  \A i \in LockIssues : StaleLabel \in labels[i]

\* an agent polled with all reads answered and did not get the issue
PolledWithoutIssue ==
  \E a \in Agents :
    stale.pc[a] = "polled" /\ stale.result[a] = Issues \ LockIssues

\* ======== SpecCycle: the poll cycles of one agent over a stable candidate list
MaxCandidates == 3

\* the issues pollLinear returns in every cycle, in the tracker's order: all
\* of them stay claimable
Candidates == [k \in 1..MaxCandidates |-> k]

\* how a processIssue call ends: false, true (work was done, or the assistant
\* returned nothing), or a rejected promise (the assistant threw)
ProcessOutcomes == {"nowork", "work", "throw"}

InitCycle ==
  /\ WorldIdle
  /\ OnlyCycle
  /\ cycle = [pc |-> "poll",
              todo |-> <<>>,                              \* rest of the for..of list
              last |-> [i \in 1..MaxCandidates |-> "none"]]  \* last outcome per issue

\* performActions: pollLinear returns the candidates
cycle_pollLinear ==
  /\ cycle.pc = "poll"
  /\ cycle' = [cycle EXCEPT !.pc = "loop", !.todo = Candidates]
  /\ UNCHANGED cycleFrame

\* one iteration of the for..of loop: processIssue(issue), then
\* `if (foundWork) return`; a throw leaves performActions and is caught by
\* runAdam
cycle_processIssue(o) ==
  /\ cycle.pc = "loop"
  /\ cycle.todo # <<>>
  /\ LET issue == Head(cycle.todo)
         rest == IF o = "throw" THEN <<>>
                 ELSE RestOfCycle(o = "work", Tail(cycle.todo))
     IN  cycle' = [cycle EXCEPT !.last[issue] = o,
                                !.todo = rest,
                                !.pc = IF rest = <<>> THEN "sleep" ELSE "loop"]
  /\ UNCHANGED cycleFrame

\* runAdam: the sleep, if any, and the next iteration of while (true)
cycle_sleep ==
  /\ cycle.pc = "sleep"
  /\ cycle' = [cycle EXCEPT !.pc = "poll"]
  /\ UNCHANGED cycleFrame

NextCycle ==
  \/ cycle_pollLinear
  \/ \E o \in ProcessOutcomes : cycle_processIssue(o)
  \/ cycle_sleep

SpecCycle == InitCycle /\ [][NextCycle]_vars

\* the agent process keeps running: no step of the loop hangs
SpecCycleFair ==
  /\ SpecCycle
  /\ WF_vars(cycle_pollLinear)
  /\ WF_vars(\E o \in ProcessOutcomes : cycle_processIssue(o))
  /\ WF_vars(cycle_sleep)

\* C37: every issue that stays in the candidate list is eventually handed to
\* processIssue.
NoIssueStarved ==
  \A i \in 1..MaxCandidates : <>(cycle.last[i] # "none")

\* a cycle ended on the first issue, counted as work, with the others never
\* processed
FirstIssueTakesTheCycle ==
  /\ cycle.pc = "sleep"
  /\ cycle.last[1] = "work"
  /\ \A i \in 2..MaxCandidates : cycle.last[i] = "none"

\* ======== SpecLost: one review thread, the assistant's commits, the next checkout
\* a pull request with one relevant leaf comment; the agent's cycles begin
\* with checkoutBranch and go on with processExistingPR
InitLost ==
  /\ WorldIdle
  /\ OnlyLost
  /\ lost = [pc |-> "checkout",
             cycles |-> 1,
             eyes |-> FALSE,     \* the agent's eyes reaction is on the leaf
             unpushed |-> 0,     \* local commits the remote branch lacks
             remote |-> 0,       \* commits of the assistant on the remote branch
             replies |-> 0,      \* replies posted on the pull request
             discarded |-> 0]    \* commits thrown away by git reset --hard

\* checkoutBranch on the existing branch: fetch and reset --hard to the
\* remote branch; when the fetch or the reset throws, the local branch stays
lost_checkoutBranch(o) ==
  /\ lost.pc = "checkout"
  /\ lost' = IF o = "reset"
               THEN [lost EXCEPT !.pc = "filter", !.unpushed = 0,
                                 !.discarded = @ + lost.unpushed]
               ELSE [lost EXCEPT !.pc = "filter"]
  /\ UNCHANGED lostFrame

\* getPRComments and filterRelevantComments: the leaf gives a thread unless
\* the agent's eyes reaction is on it
lost_filterRelevantComments ==
  /\ lost.pc = "filter"
  /\ lost' = [lost EXCEPT !.pc = IF alreadyProcessed(IF lost.eyes THEN {ourUsername}
                                                                  ELSE {},
                                                     ourUsername)
                                   THEN "end" ELSE "react"]
  /\ UNCHANGED lostFrame

\* addCommentReaction before the assistant
lost_addCommentReaction(ok) ==
  /\ lost.pc = "react"
  /\ lost' = [lost EXCEPT !.pc = "claude", !.eyes = @ \/ ok]
  /\ UNCHANGED lostFrame

\* callClaude and ensureChangesCommitted: a response with a commit, a
\* response without changes, or no response
lost_callClaude(o) ==
  /\ lost.pc = "claude"
  /\ lost' = CASE o = "commit" -> [lost EXCEPT !.pc = "respond", !.unpushed = @ + 1]
               [] o = "nochange" -> [lost EXCEPT !.pc = "respond"]
               [] OTHER -> [lost EXCEPT !.pc = "end"]
  /\ UNCHANGED lostFrame

\* respondToConversationThread: the reply post, and the push only after a
\* posted reply
lost_post(posted) ==
  /\ lost.pc = "respond"
  /\ lost' = [lost EXCEPT !.pc = IF PushAfterReply(IF posted THEN "posted" ELSE "null")
                                   THEN "push" ELSE "end",
                          !.replies = IF posted THEN @ + 1 ELSE @]
  /\ UNCHANGED lostFrame

\* pushBranchAndMergeIfNecessary: false is only logged
lost_push(ok) ==
  /\ lost.pc = "push"
  /\ lost' = IF ok THEN [lost EXCEPT !.pc = "end", !.unpushed = 0,
                                     !.remote = @ + lost.unpushed]
                   ELSE [lost EXCEPT !.pc = "end"]
  /\ UNCHANGED lostFrame

\* the cycle is over; the next one checks the branch out again
lost_nextCycle ==
  /\ lost.pc = "end"
  /\ lost.cycles < MaxCycles
  /\ lost' = [lost EXCEPT !.pc = "checkout", !.cycles = @ + 1]
  /\ UNCHANGED lostFrame

NextLost ==
  \/ \E o \in {"reset", "error"} : lost_checkoutBranch(o)
  \/ lost_filterRelevantComments
  \/ \E ok \in BOOLEAN : lost_addCommentReaction(ok)
  \/ \E o \in {"commit", "nochange", "empty"} : lost_callClaude(o)
  \/ \E posted \in BOOLEAN : lost_post(posted)
  \/ \E ok \in BOOLEAN : lost_push(ok)
  \/ lost_nextCycle

SpecLost == InitLost /\ [][NextLost]_vars

\* C38: a cycle that processed the thread ends with the assistant's commits
\* pushed or with the leaf still eligible, and checkoutBranch discards
\* unpushed commits only of a thread whose leaf is still eligible.
CommitsNeverLost ==
  /\ [](lost.pc = "end" /\ lost.unpushed > 0 => ~lost.eyes)
  /\ [][lost'.discarded > lost.discarded => ~lost.eyes]_vars

\* the leaf is marked as processed, its commit was discarded and nothing of
\* it reached the remote branch
MarkedAndDiscarded ==
  lost.eyes /\ lost.discarded = 1 /\ lost.remote = 0 /\ lost.pc = "end"

\* ======== SpecTrace: the while loop of buildConversationThread, step by step
\* any comment array: the comment at position k has id k, and a reply pointer
\* is null (0), the id of a comment of the array, the comment's own id among
\* them, or an id that is not in the array (n + 1)
InitTrace ==
  /\ WorldIdle
  /\ OnlyTrace
  /\ \E n \in 1..MaxComments :
       \E p \in [1..n -> 0..(n + 1)], k \in 1..n :
         LET allComments == [i \in 1..n |-> [id |-> i, in_reply_to_id |-> p[i]]]
         IN  trace = [pc |-> "while",
                      allComments |-> allComments,
                      currentComment |-> <<allComments[k]>>,
                      thread |-> <<>>]

\* one iteration of while (currentComment): unshift, then the parent or null;
\* the walk is followed until one step after a comment has come back
trace_while ==
  /\ trace.pc = "while"
  /\ trace.currentComment # <<>>
  /\ Len(trace.thread) <= Len(trace.allComments)
  /\ LET c == trace.currentComment[1]
     IN  trace' = [trace EXCEPT
                     !.thread = unshift(@, c),
                     !.currentComment =
                        IF c.in_reply_to_id # 0
                          THEN find(trace.allComments, c.in_reply_to_id)
                          ELSE <<>>]
  /\ UNCHANGED traceFrame

\* currentComment is null or undefined: return thread
trace_return ==
  /\ trace.pc = "while"
  /\ trace.currentComment = <<>>
  /\ trace' = [trace EXCEPT !.pc = "returned"]
  /\ UNCHANGED traceFrame

NextTrace ==
  \/ trace_while
  \/ trace_return

SpecTrace == InitTrace /\ [][NextTrace]_vars

NoCommentTwice(thread) ==
  \A i, j \in 1..Len(thread) : thread[i].id = thread[j].id => i = j

\* C39: for every comment and every comment array the loop of
\* buildConversationThread ends and the thread holds no comment twice: the
\* walk is deterministic, so it ends exactly if it never comes back to a
\* comment it has already put into the thread.
TraceEndsWithoutRepeat ==
  trace.pc # "idle" => NoCommentTwice(trace.thread)

\* a reply pointer to a missing parent ends the loop
MissingParentReturns ==
  /\ trace.pc = "returned"
  /\ \E k \in 1..Len(trace.thread) :
       trace.thread[k].in_reply_to_id = Len(trace.allComments) + 1

\* the loop is still running with more comments in the thread than the array has
LoopGoesOn ==
  /\ trace.pc = "while"
  /\ trace.currentComment # <<>>
  /\ Len(trace.thread) > Len(trace.allComments)

\* ======== SpecBranches: checkBranchExists on branch names, and checkoutBranch's choice
MaxNameLen == 2
MaxBranches == 1

\* the characters of a branch name
NameChars == {"a", "1"}

\* branch names: a, 1, aa, a1, 1a, 11
BranchNames ==
  UNION {[1..n -> NameChars] : n \in 1..MaxNameLen}

BranchSets == {S \in SUBSET BranchNames : Cardinality(S) <= MaxBranches}

\* the prefix `git branch --all` puts before a remote-tracking branch
RemotePrefix == <<"remotes/", "origin/">>

\* branches.all of `git branch --all`
branchAll(local, remote) ==
  local \cup {RemotePrefix \o b : b \in remote}

\* String.prototype.includes
includes(s, t) ==
  \E i \in 0..(Len(s) - Len(t)) : SubSeq(s, i + 1, i + Len(t)) = t

\* checkBranchExists: some listed branch includes branchName or
\* origin/branchName; false when git threw
checkBranchExistsByName(branchName, all, ok) ==
  ok /\ \E branch \in all :
          \/ includes(branch, branchName)
          \/ includes(branch, <<"origin/">> \o branchName)

InitBranches ==
  /\ WorldIdle
  /\ OnlyBranches
  /\ \E local \in BranchSets, remote \in BranchSets, branchName \in BranchNames :
       branches = [pc |-> "exists",
                   local |-> local,
                   remote |-> remote,
                   branchName |-> branchName,
                   listed |-> FALSE,
                   exists |-> FALSE,
                   path |-> "none",
                   ret |-> "none"]

\* const exists = await checkBranchExists(branchName, repoPath)
branches_checkBranchExists(ok) ==
  /\ branches.pc = "exists"
  /\ LET exists == checkBranchExistsByName(branches.branchName,
                                           branchAll(branches.local, branches.remote),
                                           ok)
     IN  branches' = [branches EXCEPT !.pc = IF exists THEN "checkout" ELSE "create",
                                      !.listed = ok,
                                      !.exists = exists]
  /\ UNCHANGED branchesFrame

\* the existing-branch path: git.checkout(branchName) throws when no branch
\* has that name, and the catch returns false; a branch known only on the
\* remote is created from its remote-tracking ref
branches_checkout ==
  /\ branches.pc = "checkout"
  /\ branches' =
       IF branches.branchName \in branches.local \cup branches.remote
         THEN [branches EXCEPT !.pc = "returned", !.path = "existing",
                               !.ret = "true",
                               !.local = @ \cup {branches.branchName}]
         ELSE [branches EXCEPT !.pc = "returned", !.path = "existing",
                               !.ret = "false"]
  /\ UNCHANGED branchesFrame

\* the fresh branch: checkout of the base branch, pull, checkoutLocalBranch,
\* which throws when the branch is already there
branches_create(ok) ==
  /\ branches.pc = "create"
  /\ branches' =
       IF ok /\ branches.branchName \notin branches.local
         THEN [branches EXCEPT !.pc = "returned", !.path = "create",
                               !.ret = "true",
                               !.local = @ \cup {branches.branchName}]
         ELSE [branches EXCEPT !.pc = "returned", !.path = "create",
                               !.ret = "false"]
  /\ UNCHANGED branchesFrame

NextBranches ==
  \/ \E ok \in BOOLEAN : branches_checkBranchExists(ok)
  \/ branches_checkout
  \/ \E ok \in BOOLEAN : branches_create(ok)

SpecBranches == InitBranches /\ [][NextBranches]_vars

BranchReallyExists ==
  branches.branchName \in branches.local \cup branches.remote

\* C40: when git lists the branches, checkBranchExists answers true exactly
\* for a local or remote branch named branchName, and checkoutBranch takes
\* the existing-branch path only for such a branch.
ExactBranchOnly ==
  /\ branches.pc \in {"checkout", "create"} /\ branches.listed
       => (branches.exists <=> BranchReallyExists)
  /\ branches.pc = "checkout" => BranchReallyExists

\* checkoutBranch returned false on the existing-branch path although no
\* branch of that name was there before or after
LongerNameTaken ==
  /\ branches.pc = "returned"
  /\ branches.path = "existing"
  /\ branches.ret = "false"
  /\ ~BranchReallyExists

====
